---- MODULE Spec2Model ----
(***************************************************************************)
(* Model of the DIYAgent job orchestration layer.                          *)
(*                                                                         *)
(*   Spec        the job state machine: api/main.py start_research,        *)
(*               orchestrator/pipeline.py run_job and the status store of  *)
(*               orchestrator/status.py, for JobIds concurrent jobs.       *)
(*   SpecFanout  one call of agents/search.py perform_searches: the        *)
(*               concurrent per-task executors, the AsyncLimiter gate and  *)
(*               the retry / candidate cascade of the search calls.        *)
(*   SpecRetry   the same machine for a plan of one item, with a backend   *)
(*               that may fail MaxFaults times.                            *)
(*   SpecStore   threads calling set_status and get_status of              *)
(*               orchestrator/status.py concurrently, one step per lock    *)
(*               operation and dictionary access.                          *)
(*   SpecPlanner one call of agents/planner.py plan_searches over the      *)
(*               answers of the planning model.                            *)
(*   SpecUrl     util/url_sanitizer.py clean_product_url applied to a URL  *)
(*               text and again to its result.                             *)
(*   SpecRecords agents/emailer.py _sanitize_products and agents/writer.py *)
(*               _merge_product_results applied to product lists.          *)
(*   SpecTimeouts the job state machine with a backend that is sure to     *)
(*               answer only the calls the code puts a timeout on.         *)
(*   SpecGather  a job suspended in perform_searches while the fan-out     *)
(*               runs, up to the exception handler of run_job.             *)
(*   SpecLive    the job state machine with every collaborator answering.  *)
(*   SpecFrame   the job state machine next to a thread polling            *)
(*               get_status, one step per lock operation.                  *)
(*                                                                         *)
(* Optional values are sequences of length 0 (None) or 1.  Strings that    *)
(* the code assembles are sequences of tokens.                             *)
(***************************************************************************)
EXTENDS Integers, Sequences, FiniteSets, TLC

VARIABLES
    statuses,    \* orchestrator/status.py _STATUSES: job id -> None | entry
    pc,          \* per job: the await at which run_job is suspended
    ctx,         \* per job: the locals of run_job that outlive an await
    writes,      \* per job: history of the set_status calls (phase, detail, payload)
    calls,       \* per job: history of the collaborator invocations
    searchImpl,  \* which perform_searches orchestrator.pipeline is bound to
    foPlan,      \* fan-out: plan.searches
    foCat,       \* fan-out: the category argument
    foPc,        \* fan-out: position of perform_searches itself
    task,        \* fan-out: per task, the position and locals of its executor
    level,       \* fan-out: fill level of the AsyncLimiter bucket
    maxRate,     \* fan-out: max(1, MAX_CONCURRENCY), the limiter's max_rate
    toolType,    \* fan-out: OPENAI_WEB_TOOL_TYPE
    faults,      \* fan-out: failures the backend may still answer with
    foOut,       \* fan-out: what perform_searches returned or raised
    lock,        \* status store: the thread that holds _LOCK, if any
    thr,         \* status store: per thread, the call it is in and its locals
    fnPc,        \* function calls: "off", "called" or "returned"
    fnIn,        \* function calls: the arguments
    fnLoc,       \* function calls: the locals that outlive an await
    fnOut        \* function calls: the value returned or the exception raised

pipeVars == <<statuses, pc, ctx, writes, calls, searchImpl>>
fanVars == <<foPlan, foCat, foPc, task, level, maxRate, toolType, faults, foOut>>
storeVars == <<lock, thr>>
fnVars == <<fnPc, fnIn, fnLoc, fnOut>>
vars == <<statuses, pc, ctx, writes, calls, searchImpl,
          foPlan, foCat, foPc, task, level, maxRate, toolType, faults, foOut,
          lock, thr, fnPc, fnIn, fnLoc, fnOut>>

(***************************************************************************)
(* Bounds                                                                  *)
(***************************************************************************)
MaxJobs == 2
MaxTasks == 2
MaxRate == 1
FanFaults == 1
MaxFaults == 3
MaxThreads == 3
MaxQuery == 2
MaxProducts == 3
MaxItems == 2

None == <<>>
Some(x) == <<x>>

JobIds == 1..MaxJobs

RECURSIVE SeqsUpTo(_, _)
SeqsUpTo(S, n) ==
    IF n = 0 THEN {<<>>}
    ELSE LET shorter == SeqsUpTo(S, n - 1)
         IN  shorter \cup {Append(s, x) : s \in {t \in shorter : Len(t) = n - 1}, x \in S}

Range(s) == {s[i] : i \in 1..Len(s)}

(***************************************************************************)
(* agents/schemas.py, guards/schemas.py                                    *)
(***************************************************************************)
SearchPhase ==
    <<"Vorbereitung & Planung", "Material & Werkzeuge", "Sicherheit & Umwelt",
      "Demontage/Untergrund", "Schritt-fuer-Schritt-Ausfuehrung",
      "Qualitaet & Kontrolle", "Zeit & Kosten", "Optionen & Upgrades",
      "Pflege & Wartung", "Visual Guide">>

\* WebSearchItem(reason=..., query=...): pydantic accepts only a SearchPhase value.
WebSearchItemValid(reason) == reason \in Range(SearchPhase)

\* WebSearchPlan: 1..10 items, reasons pairwise distinct.
WebSearchPlanValid(searches) ==
    /\ Len(searches) >= 1
    /\ Len(searches) <= 10
    /\ \A i \in 1..Len(searches) : WebSearchItemValid(searches[i].reason)
    /\ \A i, k \in 1..Len(searches) : i # k => searches[i].reason # searches[k].reason

\* A query is the set of lower-cased words the code looks for in it.
Queries == {{"regal"}, {"einkaufsliste", "bauhaus"}}

\* The plans the planner hands to run_job: validated single-task plans, one
\* with a plain query and one whose query asks for a Bauhaus shopping list.
Plans ==
    {p \in {<<[reason |-> SearchPhase[1], query |-> q]>> : q \in Queries} : WebSearchPlanValid(p)}

InputCategories == {"DIY", "KI_CONTROL", "REJECT"}

ReasonTexts == {"Finanzen", "Medizin"}
ReasonLists == {<<"Finanzen">>, <<"Finanzen", "Medizin">>}

IssueTexts == {"Elektrik ohne Fachkraft", "Gas"}
IssueLists == {<<>>, <<"Elektrik ohne Fachkraft", "Gas">>}

Records == {"https://www.bauhaus.info/a"}
RecordLists == {<<>>} \cup {<<r>> : r \in Records}

\* "; ".join(parts)
RECURSIVE Join(_)
Join(parts) ==
    IF Len(parts) = 0 THEN <<>>
    ELSE IF Len(parts) = 1 THEN <<parts[1]>>
    ELSE <<parts[1], "; ">> \o Join(Tail(parts))


(***************************************************************************)
(* orchestrator/status.py                                                  *)
(***************************************************************************)
\* Mutant: detail and payload stored under each other's key.
StatusEntry_Swapped(job_id, phase, detail, payload) ==
    [job_id |-> job_id, phase |-> phase, detail |-> payload, payload |-> detail]

\* The dict that set_status stores under job_id.
StatusEntry(job_id, phase, detail, payload) ==
    [job_id |-> job_id, phase |-> phase, detail |-> detail, payload |-> payload]

\* Mutant: a detail or payload that is not passed keeps its stored value.
set_status_Merge(store, job_id, phase, detail, payload) ==
    [store EXCEPT ![job_id] =
        Some(StatusEntry(job_id, phase,
                         IF detail = None /\ @ # None THEN @[1].detail ELSE detail,
                         IF payload = None /\ @ # None THEN @[1].payload ELSE payload))]

\* set_status: one dictionary assignment under _LOCK.
set_status(store, job_id, phase, detail, payload) ==
    [store EXCEPT ![job_id] = Some(StatusEntry(job_id, phase, detail, payload))]

\* get_status: the stored entry, or the placeholder for an unknown id.
get_status(store, job_id) ==
    IF store[job_id] # None THEN store[job_id][1]
    ELSE StatusEntry(job_id, "unknown", Some(<<"Job wurde nicht gefunden">>), None)

(***************************************************************************)
(* Collaborators of run_job: what each call can return or raise            *)
(***************************************************************************)
Raise(msg) == [kind |-> "raise", msg |-> msg]

\* The locals of run_job: guard_result, the pair perform_searches returned
\* (summaries and the element bound to `_`), product_results, report, audit
\* and the exception the handler caught.
NoCtx ==
    [guard_result |-> None, summaries |-> <<>>, fanout_products |-> <<>>,
     product_results |-> <<>>, report |-> None, audit |-> None, error |-> None,
     email_result |-> None]

Category(job_context) ==
    IF job_context.guard_result = None THEN "" ELSE job_context.guard_result[1].category

Call(fn, summaries, products, report) ==
    [fn |-> fn, summaries |-> summaries, products |-> products, report |-> report]

\* guards/llm_input_guard.py classify_query_llm: an InputGuardResult, or
\* RuntimeError for every failure.
ClassifyOutcomes ==
    {[kind |-> "return", category |-> "REJECT", reasons |-> r] : r \in ReasonLists}
        \cup {[kind |-> "return", category |-> c, reasons |-> <<"Zulaessig">>] :
                  c \in InputCategories \ {"REJECT"}}
        \cup {Raise("Input-Guard nicht verfuegbar")}

\* agents/planner.py plan_searches: a validated plan, or ValueError.
PlanOutcomes ==
    {[kind |-> "return", plan |-> p] : p \in Plans}
        \cup {Raise("Planner konnte keinen gueltigen WebSearchPlan erzeugen")}

\* The words _is_product_search looks for, as far as a reason holds them.
ReasonWords(reason) ==
    IF reason = "Einkaufsliste Bauhaus" THEN {"einkaufsliste", "bauhaus"} ELSE {}

\* agents/search.py _is_product_search
_is_product_search(item) ==
    LET haystack == ReasonWords(item.reason) \cup item.query
    IN  "einkaufsliste" \in haystack /\ "bauhaus" \in haystack

\* A summary is the text a task produced, tagged with the task it belongs to.
Summary(i, text) == [of |-> i, text |-> text]

\* agents/search.py _execute_search_item, seen from perform_searches: the
\* (summary, products) pair of one task, or the exception it ends with.
TaskOutcomes(plan, i) ==
    IF _is_product_search(plan[i])
    THEN {[kind |-> "return", summary |-> Summary(i, "Einkaufsliste Bauhaus"), products |-> r] :
              r \in RecordLists}
             \cup {Raise("Timeout fuer Produkt-Suchanfrage")}
    ELSE {[kind |-> "return", summary |-> Summary(i, t), products |-> <<>>] : t \in {"", "text"}}
             \cup {Raise("Timeout fuer Suchanfrage")}

\* agents/search.py perform_searches, the loop over `combined`: empty
\* summaries are skipped, product lists are concatenated.
RECURSIVE CombineResults(_)
CombineResults(combined) ==
    IF Len(combined) = 0 THEN [summaries |-> <<>>, products |-> <<>>]
    ELSE LET rest == CombineResults(Tail(combined))
             head == combined[1]
         IN  [summaries |-> (IF head.summary.text # "" THEN <<head.summary>> ELSE <<>>)
                                \o rest.summaries,
              products |-> head.products \o rest.products]

\* agents/search.py perform_searches, the DIY branch: a shopping-list task
\* is appended unless the plan already holds one.  Its reason is not a
\* SearchPhase, so constructing the WebSearchItem raises ValidationError.
BauhausReason == "Einkaufsliste Bauhaus"

BauhausExists(searches) ==
    \E i \in 1..Len(searches) :
        searches[i].reason = BauhausReason /\ "site:bauhaus" \in searches[i].query

\* Mutant: every category is treated as DIY.
IsDiy_Always(category) == TRUE

\* (category or "").upper() == "DIY", on a category of the guard schema
IsDiy(category) == category = "DIY"

DiyAppendRaises(searches, category) ==
    IsDiy(category) /\ ~BauhausExists(searches) /\ ~WebSearchItemValid(BauhausReason)

\* plan.searches after the DIY branch went through without an exception.
DiySearches(searches, category) ==
    IF IsDiy(category) /\ ~BauhausExists(searches)
    THEN Append(searches, [reason |-> BauhausReason, query |-> {"site:bauhaus", "bauhaus"}])
    ELSE searches

\* agents/search.py perform_searches as run_job sees it.
PerformSearchesOutcomes(plan, category) ==
    IF DiyAppendRaises(plan, category)
    THEN {Raise("ValidationError WebSearchItem.reason")}
    ELSE LET combos == {c \in [1..Len(plan) -> UNION {TaskOutcomes(plan, i) : i \in 1..Len(plan)}] :
                            \A i \in 1..Len(plan) : c[i] \in TaskOutcomes(plan, i)}
         IN  {IF \E i \in 1..Len(plan) : c[i].kind = "raise"
              THEN Raise(c[CHOOSE i \in 1..Len(plan) : c[i].kind = "raise"].msg)
              ELSE LET r == CombineResults([i \in 1..Len(plan) |-> c[i]])
                   IN  [kind |-> "return", summaries |-> r.summaries, products |-> r.products] :
              c \in combos}

\* tests/integration/test_pipeline_guards.py fake_search and
\* tests/unit/test_pipeline.py failing_search: the perform_searches bound by
\* monkeypatch returns a fixed (summaries, products) pair or raises.
FakeSearchOutcomes ==
    {[kind |-> "return", summaries |-> <<Summary(1, "text")>>,
      products |-> <<"https://www.bauhaus.info/a">>],
     Raise("Netzwerkfehler")}

SearchOutcomes(impl, plan, category) ==
    IF impl = "fake" THEN FakeSearchOutcomes ELSE PerformSearchesOutcomes(plan, category)

\* perform_product_enrichment: one more structured-extraction call.
EnrichOutcomes ==
    {[kind |-> "return", products |-> r] : r \in RecordLists}
        \cup {Raise("Timeout fuer Produkt-Suchanfrage")}

\* agents/writer.py write_report: refuses an empty summary list; the DIY
\* writer always builds a structured payload, the KI_CONTROL writer returns
\* whatever ReportData the model produced.
WriteOutcomes(summaries, category, products) ==
    IF summaries = <<>> THEN {Raise("Keine Recherche-Ergebnisse verfuegbar")}
    ELSE {[kind |-> "return", report |-> [payload |-> b, products |-> products]] :
              b \in (IF category = "KI_CONTROL" THEN BOOLEAN ELSE {TRUE})}
             \cup {Raise("Writer lieferte kein gueltiges JSON")}

\* guards/llm_output_guard.py audit_report_llm
AuditOutcomes ==
    {[kind |-> "return", allowed |-> FALSE, issues |-> r] : r \in IssueLists}
        \cup {[kind |-> "return", allowed |-> TRUE, issues |-> r] : r \in {<<>>}}
        \cup {Raise("Output-Guard nicht verfuegbar")}

\* The status codes the SendGrid endpoint answers with: an interim code, an
\* accepted delivery and a server error.
SendGridCodes == {101, 202, 500}

\* agents/emailer.py _post_sendgrid: RuntimeError for a code of 300 or more.
_post_sendgrid(status_code) ==
    IF status_code >= 300 THEN Raise("SendGrid antwortete mit 500")
    ELSE [kind |-> "return", status_code |-> status_code]

\* agents/emailer.py send_email: the result dict built from the response.
send_email(status_code) ==
    LET response == _post_sendgrid(status_code)
    IN  IF response.kind = "raise" THEN response
        ELSE [kind |-> "return",
              status |-> IF 200 <= response.status_code /\ response.status_code < 300
                         THEN "sent" ELSE "failed",
              status_code |-> response.status_code,
              links |-> <<"https://www.bauhaus.info/a", "https://example.com">>]

EmailOutcomes == {send_email(code) : code \in SendGridCodes}


(***************************************************************************)
(* api/main.py start_research and orchestrator/pipeline.py run_job         *)
(***************************************************************************)
\* A status write of the job, recorded in its history.
WriteStatus(j, phase, detail, payload) ==
    /\ statuses' = set_status(statuses, j, phase, detail, payload)
    /\ writes' = [writes EXCEPT ![j] = Append(@, StatusEntry(j, phase, detail, payload))]

Invoke(j, call) == calls' = [calls EXCEPT ![j] = Append(@, call)]

\* Mutant: the handler records the phase without the message.
ErrorDetail_Dropped(error) == None

\* str(error)
ErrorDetail(error) == Some(<<error.msg>>)

\* Mutant: the handler swallows the exception without a status write.
HandleError_Silent(j, error) ==
    /\ ctx' = [ctx EXCEPT ![j].error = Some(error)]
    /\ pc' = [pc EXCEPT ![j] = "finished"]
    /\ UNCHANGED <<statuses, writes, calls>>

\* except Exception as error: set_status(job_id, "error", str(error))
HandleError(j, error) ==
    /\ WriteStatus(j, "error", ErrorDetail(error), None)
    /\ ctx' = [ctx EXCEPT ![j].error = Some(error)]
    /\ pc' = [pc EXCEPT ![j] = "finished"]
    /\ UNCHANGED calls

\* Mutant: the job is scheduled and its id returned without the queued write.
start_research_NoQueued(j) ==
    /\ pc[j] = "idle"
    /\ pc' = [pc EXCEPT ![j] = "created"]
    /\ UNCHANGED <<statuses, writes, ctx, calls, searchImpl, fanVars, storeVars, fnVars>>

\* job_id = uuid4(); set_status(job_id, "queued", None); create_task(run_job(...))
start_research(j) ==
    /\ pc[j] = "idle"
    /\ WriteStatus(j, "queued", None, None)
    /\ pc' = [pc EXCEPT ![j] = "created"]
    /\ UNCHANGED <<ctx, calls, searchImpl, fanVars, storeVars, fnVars>>

\* run_job up to its first await: phase planning, then the classifier call.
RunJobStart(j) ==
    /\ pc[j] = "created"
    /\ WriteStatus(j, "planning", None, None)
    /\ Invoke(j, Call("classify_query_llm", <<>>, <<>>, None))
    /\ pc' = [pc EXCEPT ![j] = "classify"]
    /\ UNCHANGED <<ctx, searchImpl, fanVars, storeVars, fnVars>>

\* Mutant: the sentinel is compared in the wrong case.
IsReject_LowerCase(category) == category = "reject"

\* guard_result.category == "REJECT"
IsReject(category) == category = "REJECT"

RejectDetail(reasons) == Some(<<"Kein zulaessiger Scope: ">> \o Join(reasons))

CategoryDetail(category) == Some(<<"Kategorie: ", category>>)

\* The classifier answers: reject and stop, or annotate planning and call
\* the planner.
ClassifyReturn(j) ==
    /\ pc[j] = "classify"
    /\ \E guard_result \in ClassifyOutcomes :
        \/ /\ guard_result.kind = "raise"
           /\ HandleError(j, guard_result)
        \/ /\ guard_result.kind = "return"
           /\ IsReject(guard_result.category)
           /\ WriteStatus(j, "rejected", RejectDetail(guard_result.reasons), None)
           /\ ctx' = [ctx EXCEPT ![j].guard_result = Some(guard_result)]
           /\ pc' = [pc EXCEPT ![j] = "finished"]
           /\ UNCHANGED calls
        \/ /\ guard_result.kind = "return"
           /\ ~IsReject(guard_result.category)
           /\ WriteStatus(j, "planning", CategoryDetail(guard_result.category), None)
           /\ ctx' = [ctx EXCEPT ![j].guard_result = Some(guard_result)]
           /\ Invoke(j, Call("plan_searches", <<>>, <<>>, None))
           /\ pc' = [pc EXCEPT ![j] = "plan"]
    /\ UNCHANGED <<searchImpl, fanVars, storeVars, fnVars>>

\* The planner answers: phase searching, then the fan-out.  The plan is
\* only handed on to perform_searches, whose answer SearchReturn draws.
PlanReturn(j) ==
    /\ pc[j] = "plan"
    /\ \E plan \in PlanOutcomes :
        \/ /\ plan.kind = "raise"
           /\ HandleError(j, plan)
        \/ /\ plan.kind = "return"
           /\ WriteStatus(j, "searching", None, None)
           /\ Invoke(j, Call("perform_searches", <<>>, <<>>, None))
           /\ pc' = [pc EXCEPT ![j] = "search"]
           /\ UNCHANGED ctx
    /\ UNCHANGED <<searchImpl, fanVars, storeVars, fnVars>>

\* set_status(job_id, "writing", None); write_report(query, summaries, ...,
\* product_results=product_results)
StartWriting(j, summaries, fanout_products, product_results) ==
    /\ WriteStatus(j, "writing", None, None)
    /\ ctx' = [ctx EXCEPT ![j].summaries = summaries,
                          ![j].fanout_products = fanout_products,
                          ![j].product_results = product_results]
    /\ Invoke(j, Call("write_report", summaries, product_results, None))
    /\ pc' = [pc EXCEPT ![j] = "write"]

\* summaries, _ = await perform_searches(...): the second element is dropped.
\* For DIY the enrichment call follows, otherwise product_results stays [].
SearchReturn(j) ==
    /\ pc[j] = "search"
    /\ \E plan \in Plans :
       \E found \in SearchOutcomes(searchImpl, plan, Category(ctx[j])) :
        \/ /\ found.kind = "raise"
           /\ HandleError(j, found)
        \/ /\ found.kind = "return"
           /\ IsDiy(Category(ctx[j]))
           /\ ctx' = [ctx EXCEPT ![j].summaries = found.summaries,
                                 ![j].fanout_products = found.products]
           /\ Invoke(j, Call("perform_product_enrichment", found.summaries, <<>>, None))
           /\ pc' = [pc EXCEPT ![j] = "enrich"]
           /\ UNCHANGED <<statuses, writes>>
        \/ /\ found.kind = "return"
           /\ ~IsDiy(Category(ctx[j]))
           /\ StartWriting(j, found.summaries, found.products, <<>>)
    /\ UNCHANGED <<searchImpl, fanVars, storeVars, fnVars>>

\* The enrichment answers with the records of the job.
EnrichReturn(j) ==
    /\ pc[j] = "enrich"
    /\ \E product_results \in EnrichOutcomes :
        \/ /\ product_results.kind = "raise"
           /\ HandleError(j, product_results)
        \/ /\ product_results.kind = "return"
           /\ StartWriting(j, ctx[j].summaries, ctx[j].fanout_products, product_results.products)
    /\ UNCHANGED <<searchImpl, fanVars, storeVars, fnVars>>

\* The writer answers: keep the structured payload, call the auditor.
WriteReturn(j) ==
    /\ pc[j] = "write"
    /\ \E report \in WriteOutcomes(ctx[j].summaries, Category(ctx[j]), ctx[j].product_results) :
        \/ /\ report.kind = "raise"
           /\ HandleError(j, report)
        \/ /\ report.kind = "return"
           /\ ctx' = [ctx EXCEPT ![j].report = Some(report.report)]
           /\ Invoke(j, Call("audit_report_llm", <<>>, <<>>, Some(report.report)))
           /\ pc' = [pc EXCEPT ![j] = "audit"]
           /\ UNCHANGED <<statuses, writes>>
    /\ UNCHANGED <<searchImpl, fanVars, storeVars, fnVars>>

PolicyDetail(issues) == Some(<<"Policy: ">> \o Join(issues))

\* Mutant: the issue list is consulted instead of the verdict.
AuditBlocks_ByIssues(audit) == audit.issues # <<>>

\* if not audit.allowed
AuditBlocks(audit) == ~audit.allowed

\* Mutant: the `return` after the rejected write is missing, so the job
\* goes on to the email phase.
AuditReturn_NoReturn(j) ==
    /\ pc[j] = "audit"
    /\ \E audit \in AuditOutcomes :
        \/ /\ audit.kind = "raise"
           /\ HandleError(j, audit)
        \/ /\ audit.kind = "return"
           /\ statuses' = set_status(statuses, j, "email", None, None)
           /\ writes' = [writes EXCEPT ![j] =
                  (IF AuditBlocks(audit)
                   THEN Append(@, StatusEntry(j, "rejected", PolicyDetail(audit.issues), None))
                   ELSE @) \o <<StatusEntry(j, "email", None, None)>>]
           /\ ctx' = [ctx EXCEPT ![j].audit = Some(audit)]
           /\ Invoke(j, Call("send_email", <<>>, ctx[j].product_results, ctx[j].report))
           /\ pc' = [pc EXCEPT ![j] = "email"]
    /\ UNCHANGED <<searchImpl, fanVars, storeVars, fnVars>>

\* The auditor answers: reject and stop, or phase email and send_email.
AuditReturn(j) ==
    /\ pc[j] = "audit"
    /\ \E audit \in AuditOutcomes :
        \/ /\ audit.kind = "raise"
           /\ HandleError(j, audit)
        \/ /\ audit.kind = "return"
           /\ AuditBlocks(audit)
           /\ WriteStatus(j, "rejected", PolicyDetail(audit.issues), None)
           /\ ctx' = [ctx EXCEPT ![j].audit = Some(audit)]
           /\ pc' = [pc EXCEPT ![j] = "finished"]
           /\ UNCHANGED calls
        \/ /\ audit.kind = "return"
           /\ ~AuditBlocks(audit)
           /\ WriteStatus(j, "email", None, None)
           /\ ctx' = [ctx EXCEPT ![j].audit = Some(audit)]
           /\ Invoke(j, Call("send_email", <<>>, ctx[j].product_results, ctx[j].report))
           /\ pc' = [pc EXCEPT ![j] = "email"]
    /\ UNCHANGED <<searchImpl, fanVars, storeVars, fnVars>>

\* isinstance(link, str) and "bauhaus" in link.lower()
IsBauhausLink(link) == link \in {"https://www.bauhaus.info/a"}

BauhausLinks(links) == SelectSeq(links, IsBauhausLink)

\* The payload of the done phase, from job_context and the email result.
DonePayload(job_context, email_result) ==
    [email_links |-> BauhausLinks(email_result.links),
     product_results |-> job_context.product_results,
     report_payload |-> IF job_context.report # None /\ job_context.report[1].payload
                        THEN Some("report_payload") ELSE None]

\* send_email answers: phase done with the payload.
EmailReturn(j) ==
    /\ pc[j] = "email"
    /\ \E email_result \in EmailOutcomes :
        \/ /\ email_result.kind = "raise"
           /\ HandleError(j, email_result)
        \/ /\ email_result.kind = "return"
           /\ WriteStatus(j, "done", None, Some(DonePayload(ctx[j], email_result)))
           /\ ctx' = [ctx EXCEPT ![j].email_result = Some(email_result)]
           /\ pc' = [pc EXCEPT ![j] = "finished"]
           /\ UNCHANGED calls
    /\ UNCHANGED <<searchImpl, fanVars, storeVars, fnVars>>

StoreInitIdle ==
    /\ lock = None
    /\ thr = <<>>

FnInitIdle ==
    /\ fnPc = "off"
    /\ fnIn = None
    /\ fnLoc = None
    /\ fnOut = None

FanInitIdle ==
    /\ foPlan = <<>>
    /\ foCat = ""
    /\ foPc = "off"
    /\ task = <<>>
    /\ level = 0
    /\ maxRate = 1
    /\ toolType = ""
    /\ faults = 0
    /\ foOut = None

Init ==
    /\ statuses = [j \in JobIds |-> None]
    /\ pc = [j \in JobIds |-> "idle"]
    /\ ctx = [j \in JobIds |-> NoCtx]
    /\ writes = [j \in JobIds |-> <<>>]
    /\ calls = [j \in JobIds |-> <<>>]
    /\ searchImpl \in {"agents.search", "fake"}
    /\ FanInitIdle
    /\ StoreInitIdle
    /\ FnInitIdle

Next ==
    \E j \in JobIds :
        \/ start_research(j)
        \/ RunJobStart(j)
        \/ ClassifyReturn(j)
        \/ PlanReturn(j)
        \/ SearchReturn(j)
        \/ EnrichReturn(j)
        \/ WriteReturn(j)
        \/ AuditReturn(j)
        \/ EmailReturn(j)

Spec == Init /\ [][Next]_vars


(***************************************************************************)
(* Properties of the job state machine (checked under Spec)                *)
(***************************************************************************)
Entry(j) == get_status(statuses, j)

Fns(j) == {calls[j][i].fn : i \in 1..Len(calls[j])}

Phases(j) == [i \in 1..Len(writes[j]) |-> writes[j][i].phase]

PhaseRank(phase) ==
    CASE phase = "queued" -> 0
      [] phase = "planning" -> 1
      [] phase = "searching" -> 2
      [] phase = "writing" -> 3
      [] phase = "email" -> 4
      [] phase = "done" -> 5
      [] OTHER -> 6

TerminalPhases == {"done", "rejected", "error"}

PhaseCount(j, phase) == Cardinality({i \in 1..Len(writes[j]) : writes[j][i].phase = phase})

EdgeOk(a, b) ==
    /\ a.phase \notin TerminalPhases
    /\ \/ b.phase \in {"rejected", "error"}
       \/ PhaseRank(b.phase) = PhaseRank(a.phase) + 1
       \/ a.phase = "planning" /\ b.phase = "planning" /\ a.detail = None /\ b.detail # None

\* C1: the phases written for a job start at queued and follow the edges
\* queued -> planning -> searching -> writing -> email -> done; planning is
\* written at most twice (the second write adds the category detail), every
\* other phase at most once, and nothing is written after done, rejected or
\* error.  The store holds the last write.
C1_PhasePath ==
    \A j \in JobIds :
        /\ writes[j] # <<>> => writes[j][1].phase = "queued"
        /\ \A i \in 1..(Len(writes[j]) - 1) : EdgeOk(writes[j][i], writes[j][i + 1])
        /\ PhaseCount(j, "planning") <= 2
        /\ \A ph \in {"queued", "searching", "writing", "email", "done", "rejected", "error"} :
               PhaseCount(j, ph) <= 1
        /\ statuses[j] = IF writes[j] = <<>> THEN None ELSE Some(writes[j][Len(writes[j])])

C1_Witness ==
    \E j \in JobIds :
        Phases(j) = <<"queued", "planning", "planning", "searching", "writing", "email", "done">>

ReasonsIn(detail, texts) == SelectSeq(detail, LAMBDA t : t \in texts)

\* C2: once the classifier has returned REJECT the job is finished in phase
\* rejected, the detail lists the classifier's reasons in order, and the
\* classifier is the only collaborator that was ever invoked for the job.
C2_RejectStops ==
    \A j \in JobIds :
        (ctx[j].guard_result # None /\ ctx[j].guard_result[1].category = "REJECT") =>
            /\ pc[j] = "finished"
            /\ Entry(j).phase = "rejected"
            /\ Entry(j).detail # None
            /\ ReasonsIn(Entry(j).detail[1], ReasonTexts) = ctx[j].guard_result[1].reasons
            /\ Fns(j) = {"classify_query_llm"}

C2_Witness ==
    \E j \in JobIds :
        /\ ctx[j].guard_result # None
        /\ ctx[j].guard_result[1].category = "REJECT"
        /\ Len(ctx[j].guard_result[1].reasons) = 2
        /\ Entry(j).phase = "rejected"

\* C3: send_email is invoked only with the report the writer returned and
\* the auditor allowed; when the auditor disallows the report the job is
\* finished in phase rejected with the auditor's issues in the detail and
\* send_email is not invoked.
C3_EmailOnlyAfterAudit ==
    \A j \in JobIds :
        /\ \A i \in 1..Len(calls[j]) :
               calls[j][i].fn = "send_email" =>
                   /\ ctx[j].report # None
                   /\ calls[j][i].report = ctx[j].report
                   /\ ctx[j].audit # None
                   /\ ctx[j].audit[1].allowed
                   /\ \E k \in 1..(i - 1) :
                          calls[j][k].fn = "audit_report_llm" /\ calls[j][k].report = ctx[j].report
        /\ (ctx[j].audit # None /\ ~ctx[j].audit[1].allowed) =>
               /\ pc[j] = "finished"
               /\ Entry(j).phase = "rejected"
               /\ Entry(j).detail # None
               /\ ReasonsIn(Entry(j).detail[1], IssueTexts) = ctx[j].audit[1].issues
               /\ "send_email" \notin Fns(j)

C3_Witness ==
    /\ \E j \in JobIds : "send_email" \in Fns(j) /\ ctx[j].audit[1].allowed
    /\ \E j \in JobIds :
           /\ ctx[j].audit # None
           /\ ~ctx[j].audit[1].allowed
           /\ ctx[j].audit[1].issues # <<>>
           /\ Entry(j).phase = "rejected"

\* C4: once a collaborator call of a job has raised, run_job has returned,
\* the job's entry is phase error with the exception's message as detail
\* and no payload, and that error write is the job's last write.
C4_ErrorRecorded ==
    \A j \in JobIds :
        ctx[j].error # None =>
            /\ pc[j] = "finished"
            /\ Entry(j) = StatusEntry(j, "error", Some(<<ctx[j].error[1].msg>>), None)
            /\ writes[j][Len(writes[j])].phase = "error"
            /\ PhaseCount(j, "error") = 1

C4_Witness ==
    \E j, k \in JobIds :
        /\ ctx[j].error # None
        /\ "send_email" \in Fns(j)
        /\ Entry(j).phase = "error"
        /\ ctx[k].error # None
        /\ Fns(k) = {"classify_query_llm"}

\* C5: a stored entry with a payload has phase done, and every status write
\* of another phase passes no payload.
C5_PayloadOnlyDone ==
    \A j \in JobIds :
        /\ (statuses[j] # None /\ statuses[j][1].payload # None) => statuses[j][1].phase = "done"
        /\ \A i \in 1..Len(writes[j]) :
               writes[j][i].phase # "done" => writes[j][i].payload = None

C5_Witness ==
    \E j \in JobIds :
        /\ statuses[j] # None
        /\ statuses[j][1].phase = "done"
        /\ statuses[j][1].payload # None
        /\ Len(writes[j]) = 7

NoDuplicates(s) == \A i, k \in 1..Len(s) : i # k => s[i] # s[k]

\* C6: with the shipped perform_searches, when the classifier accepted, the planner, the fan-out, the writer
\* (with a structured report), the auditor and the email delivery all
\* succeeded, the job is done and its payload holds the structured report
\* and every record extracted while searching - by the main fan-out as well
\* as by the enrichment - without duplicates.
C6_DonePayloadComplete ==
    \A j \in JobIds :
        ( /\ searchImpl = "agents.search"
          /\ pc[j] = "finished"
          /\ ctx[j].error = None
          /\ ctx[j].guard_result # None
          /\ ctx[j].audit # None
          /\ ctx[j].audit[1].allowed
          /\ ctx[j].report # None
          /\ ctx[j].report[1].payload ) =>
            /\ Entry(j).phase = "done"
            /\ Entry(j).payload # None
            /\ Entry(j).payload[1].report_payload # None
            /\ Range(Entry(j).payload[1].product_results) =
                   Range(ctx[j].fanout_products) \cup Range(ctx[j].product_results)
            /\ NoDuplicates(Entry(j).payload[1].product_results)

(***************************************************************************)
(* agents/search.py: one call of perform_searches                          *)
(***************************************************************************)
\* config/settings.py OPENAI_WEB_TOOL_TYPE: the default and an override.
ToolTypeSettings == {"web_search_preview", "web_search"}

\* agents/search.py _collect_tool_types: the configured type first, then the
\* two built-in fallbacks, empty values and repetitions dropped.
_collect_tool_types(configured) ==
    LET candidates == <<configured, "web_search_preview", "web_search_preview_2025_03_11">>
        seen[k \in 0..3] ==
            IF k = 0 THEN <<>>
            ELSE IF candidates[k] # "" /\ candidates[k] \notin Range(seen[k - 1])
                 THEN Append(seen[k - 1], candidates[k])
                 ELSE seen[k - 1]
    IN  seen[3]

\* What the backend can answer to one request.  An error of kind
\* "tool_type" names the tool type of the request it rejects.
ErrorKinds == {"tool_choice", "tool_type", "rate_limit", "invalid_request"}

BackendError(kind, tool_type) ==
    [kind |-> kind,
     message |-> IF kind = "tool_choice" THEN {"unknown parameter", "tool_choice"}
                 ELSE IF kind = "tool_type" THEN {"supported values", tool_type}
                 ELSE {kind}]

\* Responses to a standard search: stripped output text, possibly empty.
StandardTexts == {"text", ""}

\* Responses to a product search: output text that parses to a record list,
\* text that _parse_product_response rejects with ValueError, and JSON with
\* a numeric price, on which price.strip() raises AttributeError.
ProductTexts == RecordLists \cup {<<"kein JSON">>, <<"price: 9.99">>}

\* _parse_product_response raises ValueError: empty text or no JSON.
_parse_product_response_raises(raw_text) == raw_text = <<"kein JSON">>

\* _parse_product_response raises an exception that is no ValueError.
_parse_product_response_crashes(raw_text) == raw_text = <<"price: 9.99">>

\* agents/search.py _is_tool_choice_error
_is_tool_choice_error(exc) ==
    "tool_choice" \in exc.message \/ "unknown parameter" \in exc.message

\* Mutant: no error is recognised as a rejected tool type.
_is_tool_type_error_Never(exc, tool_type) == FALSE

\* agents/search.py _is_tool_type_error
_is_tool_type_error(exc, tool_type) ==
    tool_type \in exc.message /\ "supported values" \in exc.message

\* Mutant: AsyncRetrying gives up after the second attempt.
stop_after_attempt_Two(attempt_number) == attempt_number >= 2

\* tenacity stop_after_attempt(3)
stop_after_attempt(attempt_number) == attempt_number >= 3

\* for _ in range(2)
ChoiceRounds == 2

\* while parse_attempts < 2
ParseLimit == 2

\* The executor of one plan item: created by asyncio.create_task, it waits
\* at the limiter ("acquire"), for a response ("inflight") or in the backoff
\* of AsyncRetrying ("sleep"), and ends with a result ("done") or an
\* exception ("raised").  log records every response it received.
NewTask(item) ==
    [product |-> _is_product_search(item),
     query |-> item.query,
     pc |-> "acquire",
     attempt |-> 1,
     tool |-> 1,
     include_tool_choice |-> TRUE,
     round |-> 0,
     parse_attempts |-> 0,
     waits |-> 0,
     result |-> None,
     exc |-> None,
     log |-> <<>>]

ToolTypeOf(t) == _collect_tool_types(toolType)[t.tool]

InFlight == {i \in 1..Len(task) : task[i].pc = "inflight"}

\* One more request leaves for the backend.
Issue(t) == [t EXCEPT !.pc = "inflight"]

Return(t, i, text, products) ==
    [t EXCEPT !.pc = "done",
              !.result = Some([summary |-> Summary(i, text), products |-> products])]

\* An exception leaves the `with attempt` block: AsyncRetrying retries
\* whatever the exception is, sleeps wait_exponential_jitter between two
\* attempts and, with reraise=True, re-raises the last one when it stops.
AttemptFailed(t, exc) ==
    IF stop_after_attempt(t.attempt)
    THEN [t EXCEPT !.pc = "raised", !.exc = Some(exc)]
    ELSE [t EXCEPT !.pc = "sleep", !.waits = @ + 1]

\* _invoke_standard_search: the next turn of `for tool_type in ...`.  When
\* the candidates are used up the attempt block ends without a result and
\* the function raises "search failed".
StandardNextTool(t) ==
    IF t.tool < Len(_collect_tool_types(toolType))
    THEN Issue([t EXCEPT !.tool = @ + 1, !.include_tool_choice = TRUE, !.round = 0])
    ELSE [t EXCEPT !.pc = "raised",
                   !.exc = Some(Raise(<<"search failed for query", t.query>>))]

\* _invoke_standard_search, from the response of one request to the next
\* await or to the end of the function.
StandardStep(t, i, r) ==
    IF r.kind = "ok" THEN Return(t, i, r.text, <<>>)
    ELSE IF r.kind = "timeout"
    THEN AttemptFailed(t, Raise(<<"Timeout fuer Suchanfrage", t.query>>))
    ELSE IF t.include_tool_choice /\ _is_tool_choice_error(r)
    THEN LET u == [t EXCEPT !.include_tool_choice = FALSE, !.round = @ + 1]
         IN  IF u.round < ChoiceRounds THEN Issue(u) ELSE StandardNextTool(u)
    ELSE IF _is_tool_type_error(r, ToolTypeOf(t)) THEN StandardNextTool(t)
    ELSE AttemptFailed(t, Raise(<<r.kind>>))

\* _invoke_product_search: the next turn of `for tool_type in ...`; after
\* the last candidate the function returns its "keine Ergebnisse" summary.
ProductNextTool(t, i) ==
    IF t.tool < Len(_collect_tool_types(toolType))
    THEN Issue([t EXCEPT !.tool = @ + 1, !.include_tool_choice = TRUE,
                         !.round = 0, !.parse_attempts = 1])
    ELSE Return(t, i, "Einkaufsliste Bauhaus: keine Ergebnisse.", <<>>)

\* _invoke_product_search, after the `while` loop was left by `break`.
ProductAfterWhile(t, i) ==
    IF ~t.include_tool_choice
    THEN LET u == [t EXCEPT !.round = @ + 1]
         IN  IF u.round < ChoiceRounds
             THEN Issue([u EXCEPT !.parse_attempts = 1])
             ELSE ProductNextTool(u, i)
    ELSE Return(t, i, "Einkaufsliste Bauhaus: keine Ergebnisse.", <<>>)

\* _invoke_product_search, from the response of one request to the next
\* await or to the end of the function.
ProductStep(t, i, r) ==
    IF r.kind = "ok"
    THEN IF _parse_product_response_crashes(r.text)
         THEN AttemptFailed(t, Raise(<<"AttributeError">>))
         ELSE IF ~_parse_product_response_raises(r.text)
         THEN Return(t, i,
                     IF r.text # <<>> THEN "Einkaufsliste Bauhaus: n Produkte extrahiert."
                     ELSE "Einkaufsliste Bauhaus: keine Produkte gefunden.",
                     r.text)
         ELSE IF t.parse_attempts < ParseLimit
         THEN Issue([t EXCEPT !.parse_attempts = @ + 1])
         ELSE Return(t, i, "Einkaufsliste Bauhaus: keine Produkte gefunden.", <<>>)
    ELSE IF r.kind = "timeout"
    THEN AttemptFailed(t, Raise(<<"Timeout fuer Produkt-Suchanfrage", t.query>>))
    ELSE IF t.include_tool_choice /\ _is_tool_choice_error(r)
    THEN ProductAfterWhile([t EXCEPT !.include_tool_choice = FALSE], i)
    ELSE IF _is_tool_type_error(r, ToolTypeOf(t)) THEN ProductAfterWhile(t, i)
    ELSE Return(t, i, "Einkaufsliste Bauhaus: Fehler bei der Produktsuche.", <<>>)

\* The answers the backend can give to the request task t has in flight;
\* asyncio.wait_for turns a late answer into a timeout.
Responses(t) ==
    {[kind |-> "ok", text |-> x] : x \in IF t.product THEN ProductTexts ELSE StandardTexts}
        \cup {[kind |-> "timeout"]}
        \cup {BackendError(k, ToolTypeOf(t)) : k \in ErrorKinds}

\* The job whose run_job awaits this call of perform_searches.
FanJob == 1

\* One more entry of the task's log: the answer, the request it answers and
\* the phase the store holds for the job at that moment.
Logged(t, r) ==
    [t EXCEPT !.log = Append(@, [attempt |-> t.attempt,
                                 tool_type |-> ToolTypeOf(t),
                                 tool_choice |-> t.include_tool_choice,
                                 waits |-> t.waits,
                                 out |-> r.kind,
                                 text |-> IF r.kind = "ok" THEN Some(r.text) ELSE None,
                                 job_phase |-> Entry(FanJob).phase])]

\* perform_searches up to asyncio.gather: the empty plan and the DIY branch
\* raise before any task exists; otherwise one task per item is created
\* behind a fresh AsyncLimiter.
PerformSearchesStart ==
    /\ foPc = "called"
    /\ IF Len(foPlan) = 0
       THEN /\ foPc' = "raised"
            /\ foOut' = Some(Raise(<<"no searches planned">>))
            /\ UNCHANGED <<task, level>>
       ELSE IF DiyAppendRaises(foPlan, foCat)
       THEN /\ foPc' = "raised"
            /\ foOut' = Some(Raise(<<"ValidationError WebSearchItem.reason">>))
            /\ UNCHANGED <<task, level>>
       ELSE /\ foPc' = "gather"
            /\ task' = [i \in 1..Len(DiySearches(foPlan, foCat)) |->
                            NewTask(DiySearches(foPlan, foCat)[i])]
            /\ level' = 0
            /\ UNCHANGED foOut
    /\ UNCHANGED <<foPlan, foCat, maxRate, toolType, faults, pipeVars, storeVars, fnVars>>

\* `async with limiter`: AsyncLimiter.acquire returns once the bucket has
\* room for one more unit, and the first request of the attempt leaves.
\* Leaving the `async with` block gives nothing back.
Acquire(i) ==
    /\ foPc \in {"gather", "raised"}
    /\ i \in 1..Len(task)
    /\ task[i].pc = "acquire"
    /\ level + 1 <= maxRate
    /\ level' = level + 1
    /\ task' = [task EXCEPT ![i] = Issue([@ EXCEPT !.tool = 1,
                                                   !.include_tool_choice = TRUE,
                                                   !.round = 0,
                                                   !.parse_attempts = IF task[i].product THEN 1 ELSE 0])]
    /\ UNCHANGED <<foPlan, foCat, foPc, maxRate, toolType, faults, foOut, pipeVars, storeVars, fnVars>>

\* AsyncLimiter._leak: the bucket drains with time, max_rate units per
\* time_period, whether or not the calls that filled it have returned.
Leak ==
    /\ foPc \in {"gather", "raised"}
    /\ level > 0
    /\ level' = level - 1
    /\ UNCHANGED <<foPlan, foCat, foPc, task, maxRate, toolType, faults, foOut, pipeVars, storeVars, fnVars>>

\* Mutant: the first exception cancels the tasks that are still running.
gather_first_exception_Cancels(tasks, i) ==
    [k \in 1..Len(tasks) |->
        IF k # i /\ tasks[k].pc \notin {"done", "raised"}
        THEN [tasks[k] EXCEPT !.pc = "cancelled"]
        ELSE tasks[k]]

\* asyncio.gather(*tasks) without return_exceptions: the exception of task
\* i is propagated to the awaiter at once, the other tasks are not
\* cancelled and run on.
gather_first_exception(tasks, i) == tasks

\* The backend answers the request of task i and the executor runs on to
\* its next await.  An exception that ends the task reaches asyncio.gather,
\* which hands the first one to perform_searches and leaves the other tasks
\* running.
Respond(i) ==
    /\ foPc \in {"gather", "raised"}
    /\ i \in 1..Len(task)
    /\ task[i].pc = "inflight"
    /\ \E r \in Responses(task[i]) :
        LET t == Logged(task[i], r)
            after == IF t.product THEN ProductStep(t, i, r) ELSE StandardStep(t, i, r)
        IN  /\ (r.kind # "ok") => faults > 0
            /\ faults' = IF r.kind # "ok" THEN faults - 1 ELSE faults
            /\ IF after.pc = "raised" /\ foPc = "gather"
               THEN /\ task' = gather_first_exception([task EXCEPT ![i] = after], i)
                    /\ foPc' = "raised"
                    /\ foOut' = Some(after.exc[1])
               ELSE /\ task' = [task EXCEPT ![i] = after]
                    /\ UNCHANGED <<foPc, foOut>>
    /\ UNCHANGED <<foPlan, foCat, level, maxRate, toolType, pipeVars, storeVars, fnVars>>

\* The backoff sleep of AsyncRetrying is over: the next attempt begins.
Wake(i) ==
    /\ foPc \in {"gather", "raised"}
    /\ i \in 1..Len(task)
    /\ task[i].pc = "sleep"
    /\ task' = [task EXCEPT ![i] = [@ EXCEPT !.pc = "acquire", !.attempt = @ + 1]]
    /\ UNCHANGED <<foPlan, foCat, foPc, level, maxRate, toolType, faults, foOut, pipeVars, storeVars, fnVars>>

\* perform_searches after asyncio.gather returned every task's pair.
GatherReturn ==
    /\ foPc = "gather"
    /\ \A i \in 1..Len(task) : task[i].pc = "done"
    /\ LET r == CombineResults([i \in 1..Len(task) |-> task[i].result[1]])
       IN  foOut' = Some([kind |-> "return", summaries |-> r.summaries, products |-> r.products])
    /\ foPc' = "returned"
    /\ UNCHANGED <<foPlan, foCat, task, level, maxRate, toolType, faults, pipeVars, storeVars, fnVars>>

PipeInitIdle ==
    /\ statuses = [j \in JobIds |-> None]
    /\ pc = [j \in JobIds |-> "idle"]
    /\ ctx = [j \in JobIds |-> NoCtx]
    /\ writes = [j \in JobIds |-> <<>>]
    /\ calls = [j \in JobIds |-> <<>>]
    /\ searchImpl = "agents.search"
    /\ StoreInitIdle
    /\ FnInitIdle

\* The arguments of perform_searches: plans of up to MaxTasks items, built
\* the way WebSearchPlan.model_construct builds them, and the category.  A
\* shopping-list query, if the plan has one, is its last item.
FanItems(n) ==
    {q \in [1..n -> Queries] : \A i \in 1..(n - 1) : ~_is_product_search([reason |-> SearchPhase[i], query |-> q[i]])}

FanPlan(queries) == [i \in 1..Len(queries) |-> [reason |-> SearchPhase[i], query |-> queries[i]]]

FanCategories == {"", "DIY"}

InitFanout ==
    /\ PipeInitIdle
    /\ foPlan \in {FanPlan(q) : q \in UNION {FanItems(n) : n \in 0..MaxTasks}}
    /\ foCat \in FanCategories
    /\ foPc = "called"
    /\ task = <<>>
    /\ level = 0
    /\ maxRate \in 1..MaxRate
    /\ toolType = "web_search_preview"
    /\ faults = FanFaults
    /\ foOut = None

\* One task alone, with a backend that may fail MaxFaults times.
InitRetry ==
    /\ PipeInitIdle
    /\ foPlan \in {FanPlan(q) : q \in FanItems(1)}
    /\ foCat = ""
    /\ foPc = "called"
    /\ task = <<>>
    /\ level = 0
    /\ maxRate = 1
    /\ toolType \in ToolTypeSettings
    /\ faults = MaxFaults
    /\ foOut = None

NextFanout ==
    \/ PerformSearchesStart
    \/ Leak
    \/ GatherReturn
    \/ \E i \in 1..MaxTasks :
        \/ Acquire(i)
        \/ Respond(i)
        \/ Wake(i)

SpecFanout == InitFanout /\ [][NextFanout]_vars

SpecRetry == InitRetry /\ [][NextFanout]_vars


(***************************************************************************)
(* Properties of the fan-out (checked under SpecFanout and SpecRetry)      *)
(***************************************************************************)
\* C7: whenever perform_searches returns for a non-empty plan, whatever the
\* order in which its tasks completed, it returns exactly len(plan)
\* summaries and the i-th summary is the result of the i-th task.
C7_OneSummaryPerTask ==
    (foPc = "returned" /\ Len(foPlan) > 0) =>
        /\ Len(foOut[1].summaries) = Len(foPlan)
        /\ \A i \in 1..Len(foPlan) : foOut[1].summaries[i] = task[i].result[1].summary

\* C8: during a fan-out with limit N = maxRate over a plan of more than N
\* tasks, at most N backend calls are in flight at any moment.
C8_InFlightBounded ==
    (foPc \in {"gather", "raised"} /\ Len(foPlan) > maxRate) =>
        Cardinality(InFlight) <= maxRate

TransientKinds == {"timeout", "rate_limit"}

\* The backend answered the first n requests of task t with transient errors.
TransientRun(t, n) ==
    /\ Len(t.log) >= n
    /\ \A k \in 1..n : t.log[k].out \in TransientKinds

\* C9: a standard search call whose backend fails transiently on the first
\* two attempts has not given up, and when the third attempt is answered it
\* returns that answer: three attempts, one request each, a backoff wait
\* before the second and before the third, and no exception.
C9_ThirdAttemptSucceeds ==
    \A i \in 1..Len(task) :
        LET t == task[i]
        IN  (~t.product /\ TransientRun(t, 2)) =>
                /\ \A k \in 1..2 : t.log[k].attempt = k /\ t.log[k].waits = k - 1
                /\ Len(t.log) = 2 =>
                       /\ t.pc \in {"sleep", "acquire", "inflight"}
                       /\ t.exc = None
                       /\ t.waits = 2
                /\ (Len(t.log) = 3 /\ t.log[3].out = "ok") =>
                       /\ t.pc = "done"
                       /\ t.exc = None
                       /\ t.result[1].summary = Summary(i, t.log[3].text[1])
                       /\ t.attempt = 3
                       /\ t.log[3].attempt = 3
                       /\ t.waits = 2
                       /\ t.log[3].waits = 2

C9_Witness ==
    \E i \in 1..Len(task) :
        /\ ~task[i].product
        /\ TransientRun(task[i], 2)
        /\ Len(task[i].log) = 3
        /\ task[i].log[3].out = "ok"
        /\ task[i].log[3].text = Some("text")
        /\ task[i].pc = "done"
        /\ foPc = "returned"

\* The k-th answer to task t rejects the first candidate tool type.
FirstCandidateRejected(t, k) ==
    /\ t.log[k].out = "tool_type"
    /\ t.log[k].tool_type = _collect_tool_types(toolType)[1]

\* C10: when the backend rejects the first candidate tool type of a
\* standard search call, the next request carries the second candidate in
\* the same attempt and after no further backoff wait; if the backend
\* accepts it, the call returns in that same attempt.
C10_NextCandidateSameAttempt ==
    \A i \in 1..Len(task) :
        LET t == task[i]
        IN  \A k \in 1..Len(t.log) :
                (~t.product /\ FirstCandidateRejected(t, k)) =>
                    /\ k = Len(t.log) =>
                           /\ t.pc = "inflight"
                           /\ t.tool = 2
                           /\ t.attempt = t.log[k].attempt
                           /\ t.waits = t.log[k].waits
                    /\ k < Len(t.log) =>
                           /\ t.log[k + 1].tool_type = _collect_tool_types(toolType)[2]
                           /\ t.log[k + 1].attempt = t.log[k].attempt
                           /\ t.log[k + 1].waits = t.log[k].waits
                           /\ t.log[k + 1].out = "ok" =>
                                  /\ t.pc = "done"
                                  /\ t.exc = None
                                  /\ t.attempt = t.log[k].attempt
                                  /\ t.waits = t.log[k].waits

C10_Witness ==
    \E i \in 1..Len(task) :
        /\ ~task[i].product
        /\ Len(task[i].log) = 2
        /\ FirstCandidateRejected(task[i], 1)
        /\ task[i].log[2].out = "ok"
        /\ task[i].log[2].tool_type = _collect_tool_types(toolType)[2]
        /\ task[i].pc = "done"
        /\ task[i].attempt = 1
        /\ task[i].waits = 0

(***************************************************************************)
(* orchestrator/status.py under concurrent callers                         *)
(***************************************************************************)
Threads == 1..MaxThreads

\* The job ids the callers use.
StoreKeys == {1, 2}

\* The (phase, detail, payload) arguments callers pass to set_status: a
\* write with a detail and no payload, and one with a payload and no detail.
StatusArgs ==
    {[phase |-> "planning", detail |-> Some(<<"Kategorie: ", "DIY">>), payload |-> None],
     [phase |-> "done", detail |-> None, payload |-> Some([email_links |-> <<>>])]}

IdleThread ==
    [op |-> "none", pc |-> "idle", job_id |-> 0, args |-> None,
     begun |-> 0, seen |-> 0, result |-> None]

\* A thread enters set_status(job_id, phase, detail, payload).
SetStatusCall(t, j, a) ==
    /\ thr[t].pc = "idle"
    /\ thr' = [thr EXCEPT ![t] = [IdleThread EXCEPT !.op = "set_status", !.pc = "lock",
                                                    !.job_id = j, !.args = Some(a),
                                                    !.begun = Len(writes[j])]]
    /\ UNCHANGED <<statuses, writes, lock, pc, ctx, calls, searchImpl, fanVars, fnVars>>

\* A thread enters get_status(job_id).
GetStatusCall(t, j) ==
    /\ thr[t].pc = "idle"
    /\ thr' = [thr EXCEPT ![t] = [IdleThread EXCEPT !.op = "get_status", !.pc = "lock",
                                                    !.job_id = j,
                                                    !.begun = Len(writes[j])]]
    /\ UNCHANGED <<statuses, writes, lock, pc, ctx, calls, searchImpl, fanVars, fnVars>>

\* with _LOCK: entered once no other thread holds the lock.
LockAcquire(t) ==
    /\ thr[t].pc = "lock"
    /\ lock = None
    /\ lock' = Some(t)
    /\ thr' = [thr EXCEPT ![t].pc = "held"]
    /\ UNCHANGED <<statuses, writes, pc, ctx, calls, searchImpl, fanVars, fnVars>>

\* Mutant: the entry is updated field by field and the lock is given up
\* after the phase; detail and payload of the old entry are still in place.
StoreWrite_Torn(t) ==
    /\ thr[t].pc = "held"
    /\ thr[t].op = "set_status"
    /\ LET j == thr[t].job_id
           a == thr[t].args[1]
           old == get_status(statuses, j)
       IN  /\ statuses' = set_status(statuses, j, a.phase, old.detail, old.payload)
           /\ writes' = [writes EXCEPT ![j] = Append(@, StatusEntry(j, a.phase, a.detail, a.payload))]
    /\ thr' = [thr EXCEPT ![t].pc = "unlock"]
    /\ UNCHANGED <<lock, pc, ctx, calls, searchImpl, fanVars, fnVars>>

\* _STATUSES[job_id] = {...}: the new dict is built and bound to the key in
\* one assignment.
StoreWrite(t) ==
    /\ thr[t].pc = "held"
    /\ thr[t].op = "set_status"
    /\ LET j == thr[t].job_id
           a == thr[t].args[1]
       IN  /\ statuses' = set_status(statuses, j, a.phase, a.detail, a.payload)
           /\ writes' = [writes EXCEPT ![j] = Append(@, StatusEntry(j, a.phase, a.detail, a.payload))]
    /\ thr' = [thr EXCEPT ![t].pc = "unlock"]
    /\ UNCHANGED <<lock, pc, ctx, calls, searchImpl, fanVars, fnVars>>

\* Mutant: _STATUSES.setdefault(job_id, placeholder), which stores the
\* placeholder under an id the store does not know.
StoreRead_SetDefault(t) ==
    /\ thr[t].pc = "held"
    /\ thr[t].op = "get_status"
    /\ thr' = [thr EXCEPT ![t].pc = "unlock",
                          ![t].seen = Len(writes[thr[t].job_id]),
                          ![t].result = Some(get_status(statuses, thr[t].job_id))]
    /\ statuses' = [statuses EXCEPT ![thr[t].job_id] =
                        Some(get_status(statuses, thr[t].job_id))]
    /\ UNCHANGED <<writes, lock, pc, ctx, calls, searchImpl, fanVars, fnVars>>

\* return _STATUSES.get(job_id, placeholder), evaluated inside the lock.
StoreRead(t) ==
    /\ thr[t].pc = "held"
    /\ thr[t].op = "get_status"
    /\ thr' = [thr EXCEPT ![t].pc = "unlock",
                          ![t].seen = Len(writes[thr[t].job_id]),
                          ![t].result = Some(get_status(statuses, thr[t].job_id))]
    /\ UNCHANGED <<statuses, writes, lock, pc, ctx, calls, searchImpl, fanVars, fnVars>>

\* Leaving the with block releases _LOCK and the call returns.
LockRelease(t) ==
    /\ thr[t].pc = "unlock"
    /\ lock = Some(t)
    /\ lock' = None
    /\ thr' = [thr EXCEPT ![t].pc = "returned"]
    /\ UNCHANGED <<statuses, writes, pc, ctx, calls, searchImpl, fanVars, fnVars>>

InitStore ==
    /\ statuses = [j \in JobIds |-> None]
    /\ pc = [j \in JobIds |-> "idle"]
    /\ ctx = [j \in JobIds |-> NoCtx]
    /\ writes = [j \in JobIds |-> <<>>]
    /\ calls = [j \in JobIds |-> <<>>]
    /\ searchImpl = "agents.search"
    /\ FanInitIdle
    /\ FnInitIdle
    /\ lock = None
    /\ thr = [t \in Threads |-> IdleThread]

NextStore ==
    \E t \in Threads :
        \/ \E j \in StoreKeys, a \in StatusArgs : SetStatusCall(t, j, a)
        \/ \E j \in StoreKeys : GetStatusCall(t, j)
        \/ LockAcquire(t)
        \/ StoreWrite(t)
        \/ StoreRead(t)
        \/ LockRelease(t)

SpecStore == InitStore /\ [][NextStore]_vars

(***************************************************************************)
(* Properties of the status store (checked under SpecStore)                *)
(***************************************************************************)
Placeholder(j) == StatusEntry(j, "unknown", Some(<<"Job wurde nicht gefunden">>), None)

WrittenEntries(j) == {writes[j][k] : k \in 1..Len(writes[j])}

Readers == {t \in DOMAIN thr : thr[t].op = "get_status" /\ thr[t].result # None}

\* C11: at most one thread is inside the lock, and every entry a get_status
\* returned - also one that ran while set_status calls for the same job
\* were in progress - is as a whole an entry some set_status call passed,
\* or the placeholder: never the phase of one write with the detail or
\* payload of another.
C11_NoTornRead ==
    /\ Cardinality({t \in DOMAIN thr : thr[t].pc \in {"held", "unlock"}}) <= 1
    /\ \A t \in DOMAIN thr : thr[t].pc \in {"held", "unlock"} => lock = Some(t)
    /\ \A t \in Readers :
           thr[t].result[1] \in WrittenEntries(thr[t].job_id) \cup {Placeholder(thr[t].job_id)}

\* A get_status during which another thread replaced an entry that differs
\* in phase, detail and payload.
C11_Witness ==
    \E t \in Readers :
        LET j == thr[t].job_id
        IN  /\ thr[t].begun >= 1
            /\ thr[t].begun < thr[t].seen
            /\ thr[t].result[1] = writes[j][thr[t].seen]
            /\ writes[j][thr[t].begun].phase # writes[j][thr[t].seen].phase
            /\ writes[j][thr[t].begun].detail # writes[j][thr[t].seen].detail
            /\ writes[j][thr[t].begun].payload # writes[j][thr[t].seen].payload

\* C12: the store holds, per job id, exactly the arguments of the most
\* recent set_status for that id, and a get_status returns the entry that
\* was the most recent one at the moment of its read, which lies between
\* its call and its return; an id never written yields the placeholder.
C12_LastWriteWins ==
    /\ \A j \in JobIds :
           get_status(statuses, j) =
               IF writes[j] = <<>> THEN Placeholder(j) ELSE writes[j][Len(writes[j])]
    /\ \A t \in Readers :
           LET j == thr[t].job_id
               r == thr[t].result[1]
           IN  /\ thr[t].begun <= thr[t].seen
               /\ thr[t].seen <= Len(writes[j])
               /\ r.job_id = j
               /\ IF thr[t].seen = 0 THEN r = Placeholder(j)
                  ELSE /\ r.phase = writes[j][thr[t].seen].phase
                       /\ r.detail = writes[j][thr[t].seen].detail
                       /\ r.payload = writes[j][thr[t].seen].payload

\* A write with a detail, then a write without one, then a poll: the detail
\* is null; meanwhile the other job id was written too.
C12_Witness ==
    \E t \in Readers :
        LET j == thr[t].job_id
        IN  /\ thr[t].seen = 2
            /\ writes[j][1].detail # None
            /\ writes[j][2].detail = None
            /\ thr[t].result[1].detail = None
            /\ thr[t].result[1].payload # None
            /\ thr[t].pc = "returned"

(***************************************************************************)
(* Further properties of the job state machine (checked under Spec)        *)
(***************************************************************************)
SpecPhases ==
    {"queued", "planning", "searching", "writing", "email", "done", "rejected", "error"}

\* C13: once start_research has returned a job id, a poll of that id at any
\* moment sees one of the eight phases and never unknown; until run_job
\* wrote its first status the poll sees queued, the first write of the job.
C13_NeverUnknown ==
    \A j \in JobIds :
        pc[j] # "idle" =>
            /\ Entry(j).phase \in SpecPhases
            /\ Entry(j).job_id = j
            /\ pc[j] = "created" => Entry(j).phase = "queued"
            /\ writes[j][1].phase = "queued"

\* One job is polled between start_research and the first step of run_job,
\* another one after run_job has ended.
C13_Witness ==
    \E j, k \in JobIds :
        /\ pc[j] = "created"
        /\ Entry(j).phase = "queued"
        /\ pc[k] = "finished"
        /\ Entry(k).phase \in TerminalPhases

\* C14: a job whose email backend answered with a status code outside
\* 200..299 ends in error, and a job that is done has an email result for a
\* code inside 200..299.
C14_EmailFailureIsError ==
    \A j \in JobIds :
        /\ ctx[j].error = Some(_post_sendgrid(500)) => Entry(j).phase = "error"
        /\ ( /\ ctx[j].email_result # None
             /\ ~(200 <= ctx[j].email_result[1].status_code
                  /\ ctx[j].email_result[1].status_code < 300) ) =>
               Entry(j).phase = "error"
        /\ Entry(j).phase = "done" =>
               /\ ctx[j].email_result # None
               /\ 200 <= ctx[j].email_result[1].status_code
               /\ ctx[j].email_result[1].status_code < 300

(***************************************************************************)
(* agents/planner.py: one call of plan_searches                            *)
(***************************************************************************)
\* The user queries, as the set of _ensure_premium_slot keywords they hold.
UserQueries == {{}, {"laminat"}}

\* config/settings.py HOW_MANY_SEARCHES: the default and an override.
HowManySettings == {0, 3}

\* The first n phases with a non-blank query each.
PhasePlan(n) == [i \in 1..n |-> [reason |-> SearchPhase[i], query |-> {"regal"}]]

\* searches without the item whose reason is phase k.
WithoutPhase(searches, k) == SelectSeq(searches, LAMBDA item : item.reason # SearchPhase[k])

\* The search lists the planner model may put into its JSON answer.
AnsweredSearches ==
    {PhasePlan(1), PhasePlan(8), PhasePlan(10),
     WithoutPhase(PhasePlan(10), 8),
     <<>>,
     PhasePlan(10) \o <<[reason |-> SearchPhase[1], query |-> {"regal"}]>>,
     <<[reason |-> SearchPhase[1], query |-> {"regal"}],
       [reason |-> SearchPhase[1], query |-> {"leiter"}]>>,
     <<[reason |-> "Einkaufsliste Bauhaus", query |-> {"regal"}]>>,
     <<[reason |-> SearchPhase[1], query |-> {}]>>}

\* What _invoke_planner_model can yield: the word REJECT, text that is no
\* JSON, a JSON answer, or the exception of a failed backend call.
PlannerAnswers ==
    {[kind |-> "reject"], [kind |-> "no_json"], Raise("APIConnectionError")}
        \cup {[kind |-> "json", searches |-> x] : x \in AnsweredSearches}

\* WebSearchPlan.model_validate_json raises ValidationError.
ModelValidateRaises(raw) ==
    raw.kind # "json" \/ ~WebSearchPlanValid(raw.searches)

\* agents/planner.py _ensure_premium_slot
_ensure_premium_slot(searches, query) ==
    IF /\ query \cap {"laminat", "parkett", "material", "boden"} # {}
       /\ \A i \in 1..Len(searches) : searches[i].reason # "Optionen & Upgrades"
       /\ Len(searches) < 10
    THEN Append(searches, [reason |-> "Optionen & Upgrades", query |-> query \cup {"optionen"}])
    ELSE searches

\* agents/planner.py _heuristic_plan: up to three seed items, None when
\* the list does not validate.
_heuristic_plan(query, how_many) ==
    LET seeds == [i \in 1..3 |-> [reason |-> SearchPhase[i], query |-> query \cup {"seed"}]]
        items == SubSeq(seeds, 1, IF how_many < 3 THEN how_many ELSE 3)
    IN  IF WebSearchPlanValid(items) THEN Some(items) ELSE None

\* plan_searches after the third failed attempt: the heuristic plan if
\* there is one, ValueError otherwise.
AfterAttempts(query, how_many) ==
    LET fallback == _heuristic_plan(query, how_many)
    IN  IF fallback # None
        THEN [kind |-> "return", plan |-> _ensure_premium_slot(fallback[1], query)]
        ELSE Raise("Planner konnte keinen gueltigen WebSearchPlan erzeugen")

\* Mutant: the premium slot is appended whatever the length of the plan.
AttemptResult_NoCap(raw, query) ==
    IF raw.kind = "raise" THEN raw
    ELSE IF raw.kind = "reject" THEN Raise("Modell hat die Anfrage als nicht-DIY abgelehnt")
    ELSE IF ModelValidateRaises(raw) THEN [kind |-> "continue"]
    ELSE [kind |-> "return",
          plan |-> Append(raw.searches, [reason |-> "Optionen & Upgrades", query |-> query])]

\* One turn of the loop of plan_searches on the answer raw: a plan is
\* returned, an exception leaves the function, or the next attempt follows.
AttemptResult(raw, query) ==
    IF raw.kind = "raise" THEN raw
    ELSE IF raw.kind = "reject" THEN Raise("Modell hat die Anfrage als nicht-DIY abgelehnt")
    ELSE IF ModelValidateRaises(raw) THEN [kind |-> "continue"]
    ELSE IF ~(1 <= Len(raw.searches) /\ Len(raw.searches) <= 10) THEN [kind |-> "continue"]
    ELSE IF \E i \in 1..Len(raw.searches) : raw.searches[i].query = {} THEN [kind |-> "continue"]
    ELSE LET plan == _ensure_premium_slot(raw.searches, query)
         IN  IF Len(plan) > 10 THEN [kind |-> "continue"]
             ELSE [kind |-> "return", plan |-> plan]

\* for attempt in range(3)
PlannerAttempts == 3

\* The planner model answers the request of the current attempt.
PlannerAnswer ==
    /\ fnPc = "called"
    /\ fnIn[1].fn = "plan_searches"
    /\ \E raw \in PlannerAnswers :
        LET r == AttemptResult(raw, fnIn[1].query)
            answers == Append(fnLoc[1].answers, raw)
            final == IF r.kind # "continue" THEN r
                     ELSE AfterAttempts(fnIn[1].query, fnIn[1].how_many)
        IN  /\ fnLoc' = Some([attempt |-> fnLoc[1].attempt + 1, answers |-> answers])
            /\ IF r.kind = "continue" /\ fnLoc[1].attempt + 1 < PlannerAttempts
               THEN UNCHANGED <<fnPc, fnOut>>
               ELSE fnPc' = "returned" /\ fnOut' = Some(final)
    /\ UNCHANGED <<fnIn, pipeVars, fanVars, storeVars>>

InitPlanner ==
    /\ statuses = [j \in JobIds |-> None]
    /\ pc = [j \in JobIds |-> "idle"]
    /\ ctx = [j \in JobIds |-> NoCtx]
    /\ writes = [j \in JobIds |-> <<>>]
    /\ calls = [j \in JobIds |-> <<>>]
    /\ searchImpl = "agents.search"
    /\ FanInitIdle
    /\ StoreInitIdle
    /\ fnPc = "called"
    /\ \E q \in UserQueries, n \in HowManySettings :
           fnIn = Some([fn |-> "plan_searches", query |-> q, how_many |-> n])
    /\ fnLoc = Some([attempt |-> 0, answers |-> <<>>])
    /\ fnOut = None

NextPlanner == PlannerAnswer

SpecPlanner == InitPlanner /\ [][NextPlanner]_vars

(***************************************************************************)
(* Properties of the planner (checked under SpecPlanner)                   *)
(***************************************************************************)
\* The planner model gave n answers and none of them yielded a plan.
NoValidAnswer(n) ==
    /\ Len(fnLoc[1].answers) = n
    /\ \A k \in 1..n : AttemptResult(fnLoc[1].answers[k], fnIn[1].query).kind = "continue"

\* C15: when none of the three answers of the planner model yields a valid
\* plan, plan_searches raises instead of returning a plan.
C15_ExhaustionRaises ==
    (fnPc = "returned" /\ NoValidAnswer(3)) => fnOut[1].kind = "raise"

\* C16: every plan plan_searches returns has 1 to 10 items with valid,
\* pairwise distinct reasons and non-blank queries.
C16_ReturnedPlanValid ==
    (fnPc = "returned" /\ fnOut[1].kind = "return") =>
        /\ WebSearchPlanValid(fnOut[1].plan)
        /\ Len(fnOut[1].plan) >= 1
        /\ Len(fnOut[1].plan) <= 10
        /\ \A i \in 1..Len(fnOut[1].plan) : fnOut[1].plan[i].query # {}
        /\ \A i, k \in 1..Len(fnOut[1].plan) :
               i # k => fnOut[1].plan[i].reason # fnOut[1].plan[k].reason

\* A validated answer of nine items to which the premium slot was appended.
C16_Witness ==
    /\ fnPc = "returned"
    /\ fnOut[1].kind = "return"
    /\ Len(fnOut[1].plan) = 10
    /\ fnOut[1].plan[10].reason = "Optionen & Upgrades"
    /\ Len(fnLoc[1].answers[Len(fnLoc[1].answers)].searches) = 9

\* The heuristic plan returned after three answers that did not validate,
\* with the premium slot appended.
C16_WitnessFallback ==
    /\ fnPc = "returned"
    /\ fnOut[1].kind = "return"
    /\ NoValidAnswer(3)
    /\ Len(fnOut[1].plan) = 4

(***************************************************************************)
(* Further properties of the fan-out (checked under SpecFanout)            *)
(***************************************************************************)
\* C17: once perform_searches is past its check for an empty plan, there is
\* exactly one executor per item of the plan it was given, the i-th for the
\* i-th item, and no other - also when the category is DIY.
C17_OneExecutorPerTask ==
    (foPc # "called" /\ Len(foPlan) > 0) =>
        /\ Len(task) = Len(foPlan)
        /\ \A i \in 1..Len(foPlan) :
               /\ task[i].query = foPlan[i].query
               /\ task[i].product = _is_product_search(foPlan[i])

(***************************************************************************)
(* util/url_sanitizer.py                                                   *)
(***************************************************************************)
\* A URL text is kept as its parts.  The host is a sequence of tokens whose
\* concatenation is the host text: "www." and "shop." are labels with their
\* dot, "evil" is a label prefix without one (evil + bauhaus.de is the host
\* evilbauhaus.de), ":8080" is a port.  scheme "" is a text that does not
\* start with "http".  A query is a sequence of key=value pairs.
_ALLOWED_BAUHAUS_DOMAINS == <<"bauhaus.info", "bauhaus.de", "bauhaus.at">>

_EXACT_BLOCKED_PARAMS == {"fbclid", "gclid", "ref", "utm"}

Hosts ==
    {<<>>, <<"bauhaus.de">>, <<"www.", "bauhaus.de">>, <<"WWW.", "Bauhaus.DE">>,
     <<"shop.", "bauhaus.info">>, <<"www.", "shop.", "bauhaus.at">>,
     <<"evil", "bauhaus.de">>, <<"www.", "evil", "bauhaus.de">>,
     <<"example.com">>, <<"bauhaus.de", ":8080">>, <<"bauhaus.de", ".example.com">>}

\* Query keys: the tokens of the key text and whether its first character
\* is written percent-encoded (%75tm_source for utm_source).
QueryKeys ==
    {[toks |-> <<"id">>, pct |-> FALSE],
     [toks |-> <<"utm_", "source">>, pct |-> FALSE],
     [toks |-> <<"UTM_", "Source">>, pct |-> FALSE],
     [toks |-> <<"utm_", "source">>, pct |-> TRUE],
     [toks |-> <<"ref">>, pct |-> FALSE],
     [toks |-> <<"ref", "erence">>, pct |-> FALSE]}

\* Query values as written: plain, and two spellings of "a b".
QueryValues == {"1", "a b", "a%20b"}

QueryPairs ==
    {[key |-> k, eq |-> TRUE, value |-> "1"] : k \in QueryKeys}
        \cup {[key |-> [toks |-> <<"id">>, pct |-> FALSE], eq |-> TRUE, value |-> v] :
                  v \in QueryValues}
        \cup {[key |-> [toks |-> <<"id">>, pct |-> FALSE], eq |-> FALSE, value |-> ""]}

Urls ==
    {[ws |-> w, scheme |-> s, host |-> h, path |-> p, query |-> q, fragment |-> f] :
         w \in BOOLEAN, s \in {"", "http", "https"}, h \in Hosts, p \in {"", "/p/1"},
         q \in SeqsUpTo(QueryPairs, MaxQuery), f \in {"", "top"}}

\* str.lower() on a token.
LowerToken(tok) ==
    CASE tok = "WWW." -> "www."
      [] tok = "Bauhaus.DE" -> "bauhaus.de"
      [] tok = "UTM_" -> "utm_"
      [] tok = "Source" -> "source"
      [] OTHER -> tok

Lower(toks) == [i \in 1..Len(toks) |-> LowerToken(toks[i])]

\* host.endswith(domain)
HostEndsWith(host, domain) == Len(host) > 0 /\ host[Len(host)] = domain

\* host.startswith("www.")
HostStartsWithWww(host) == Len(host) > 0 /\ host[1] = "www."

\* util/url_sanitizer.py _is_tracking_param, on the decoded key
_is_tracking_param(key) ==
    LET lowered == Lower(key.toks)
    IN  \/ Len(lowered) = 1 /\ lowered[1] \in _EXACT_BLOCKED_PARAMS
        \/ lowered[1] \in {"utm_", "mc_", "ref_"}

\* parse_qsl(query, keep_blank_values=True): percent- and plus-decoding.
UnquoteValue(v) == IF v \in {"a+b", "a%20b"} THEN "a b" ELSE v

parse_qsl(query) ==
    [i \in 1..Len(query) |->
        [key |-> [query[i].key EXCEPT !.pct = FALSE], value |-> UnquoteValue(query[i].value)]]

\* urlencode(pairs, doseq=True): quote_plus on keys and values.
QuoteValue(v) == IF v = "a b" THEN "a+b" ELSE v

urlencode(pairs) ==
    [i \in 1..Len(pairs) |-> [key |-> pairs[i].key, eq |-> TRUE, value |-> QuoteValue(pairs[i].value)]]

\* `not url or not url.strip()`
IsBlankUrl(url) ==
    url.scheme = "" /\ url.host = <<>> /\ url.path = "" /\ url.query = <<>> /\ url.fragment = ""

\* urlparse(candidate).netloc: for a text without scheme and host,
\* "https://" + candidate.lstrip("/") turns the first path segment into it.
Netloc(url) ==
    IF url.scheme = "" /\ url.host = <<>> /\ url.path # "" THEN <<"p">> ELSE url.host

\* Mutant: "www." is put in front of every host.
NormalizedHost_Always(host, matching_domain) == <<"www.">> \o host

\* normalized_host = f"www.{matching_domain}" if not host.startswith("www.") else host
NormalizedHost(host, matching_domain) ==
    IF ~HostStartsWithWww(host) THEN <<"www.", matching_domain>> ELSE host

\* util/url_sanitizer.py clean_product_url
clean_product_url(url) ==
    IF IsBlankUrl(url) THEN Raise("URL darf nicht leer sein")
    ELSE IF Netloc(url) = <<>> THEN Raise("URL enthaelt keine gueltige Domain")
    ELSE LET host == Lower(Netloc(url))
             matching == {k \in 1..3 : HostEndsWith(host, _ALLOWED_BAUHAUS_DOMAINS[k])}
         IN  IF matching = {} THEN Raise("Nur Bauhaus-Domains sind erlaubt")
             ELSE LET matching_domain ==
                          _ALLOWED_BAUHAUS_DOMAINS[CHOOSE k \in matching : \A m \in matching : k <= m]
                  IN  [kind |-> "return",
                       url |-> [ws |-> FALSE,
                                scheme |-> IF url.scheme = "" THEN "https" ELSE url.scheme,
                                host |-> NormalizedHost(host, matching_domain),
                                path |-> url.path,
                                query |-> urlencode(SelectSeq(parse_qsl(url.query),
                                              LAMBDA pair : ~_is_tracking_param(pair.key))),
                                fragment |-> ""]]

\* clean_product_url is called on a URL text.
CleanUrlCall ==
    /\ fnPc = "called"
    /\ fnIn[1].fn = "clean_product_url"
    /\ fnOut' = Some(clean_product_url(fnIn[1].url))
    /\ fnPc' = "returned"
    /\ UNCHANGED <<fnIn, fnLoc, pipeVars, fanVars, storeVars>>

\* clean_product_url is called on the URL it returned.
CleanUrlAgain ==
    /\ fnPc = "returned"
    /\ fnIn[1].fn = "clean_product_url"
    /\ fnOut[1].kind = "return"
    /\ fnLoc' = Some(clean_product_url(fnOut[1].url))
    /\ fnPc' = "again"
    /\ UNCHANGED <<fnIn, fnOut, pipeVars, fanVars, storeVars>>

InitUrl ==
    /\ statuses = [j \in JobIds |-> None]
    /\ pc = [j \in JobIds |-> "idle"]
    /\ ctx = [j \in JobIds |-> NoCtx]
    /\ writes = [j \in JobIds |-> <<>>]
    /\ calls = [j \in JobIds |-> <<>>]
    /\ searchImpl = "agents.search"
    /\ FanInitIdle
    /\ StoreInitIdle
    /\ fnPc = "called"
    /\ \E u \in Urls : fnIn = Some([fn |-> "clean_product_url", url |-> u])
    /\ fnLoc = None
    /\ fnOut = None

NextUrl == CleanUrlCall \/ CleanUrlAgain

SpecUrl == InitUrl /\ [][NextUrl]_vars

HostAllowListed(host) ==
    /\ Len(host) > 0
    /\ \E k \in 1..3 : host[Len(host)] = _ALLOWED_BAUHAUS_DOMAINS[k]
    /\ \A i \in 1..(Len(host) - 1) : host[i] \in {"www.", "shop."}

\* C20: clean_product_url raises for every URL whose host is neither an
\* allow-listed domain nor a subdomain of one, and every URL it returns has
\* a host inside the allow-list.
C20_OnlyAllowListedHosts ==
    fnPc \in {"returned", "again"} /\ fnIn[1].fn = "clean_product_url" =>
        /\ ~HostAllowListed(Lower(Netloc(fnIn[1].url))) => fnOut[1].kind = "raise"
        /\ fnOut[1].kind = "return" => HostAllowListed(fnOut[1].url.host)

(***************************************************************************)
(* Product records: agents/emailer.py _sanitize_products and               *)
(* agents/writer.py _merge_product_results                                 *)
(***************************************************************************)
\* str(product.url) of a validated HttpUrl: scheme and host are present.
BauhausUrl(host, query, fragment) ==
    [ws |-> FALSE, scheme |-> "https", host |-> host, path |-> "/p/1",
     query |-> query, fragment |-> fragment]

TrackingPair(tok) == [key |-> [toks |-> <<tok>> \o (IF tok = "utm_" THEN <<"source">> ELSE <<>>),
                               pct |-> FALSE], eq |-> TRUE, value |-> "1"]

\* Two spellings each of two product pages, and a page of another shop.
ProductUrls ==
    {BauhausUrl(<<"www.", "bauhaus.de">>, <<>>, ""),
     BauhausUrl(<<"bauhaus.de">>, <<TrackingPair("utm_")>>, "top"),
     BauhausUrl(<<"www.", "bauhaus.info">>, <<>>, ""),
     BauhausUrl(<<"shop.", "bauhaus.info">>, <<TrackingPair("ref")>>, ""),
     BauhausUrl(<<"example.com">>, <<>>, "")}

\* models/types.py ProductItem
ProductItems ==
    {[title |-> IF u.query = <<>> THEN "Bohrer" ELSE "Bohrer (Angebot)", url |-> u,
      note |-> IF u.fragment = "" THEN None ELSE Some("Bestseller"),
      price_text |-> IF u.query = <<>> THEN Some("9,99 EUR") ELSE None] : u \in ProductUrls}

\* models/report_payload.py ShoppingItem, as the writer's model returns it.
ShoppingItems ==
    {[position |-> None, category |-> "Werkzeug", product |-> "Akkubohrer", quantity |-> "2",
      rationale |-> "Zum Vorbohren", price |-> Some("49 EUR"),
      url |-> Some(BauhausUrl(<<"bauhaus.de">>, <<>>, ""))],
     [position |-> Some(7), category |-> "Material", product |-> "Duebel", quantity |-> "20",
      rationale |-> "Wandmontage", price |-> None,
      url |-> Some(BauhausUrl(<<"www.", "bauhaus.info">>, <<TrackingPair("utm_")>>, ""))],
     [position |-> None, category |-> "Werkzeug", product |-> "Wasserwaage", quantity |-> "1",
      rationale |-> "Ausrichten", price |-> None, url |-> None],
     [position |-> None, category |-> "Sicherheit", product |-> "Schutzbrille", quantity |-> "1",
      rationale |-> "Augenschutz", price |-> Some("5 EUR"),
      url |-> Some(BauhausUrl(<<"example.com">>, <<>>, ""))]}

\* cleaned_url.lower()
LowerUrl(url) ==
    [url EXCEPT !.host = Lower(@),
                !.query = [i \in 1..Len(@) |-> [@[i] EXCEPT !.key.toks = Lower(@)]]]

\* emailer.py:815 sanitized[:10]
ProductCap == 10

Head_(seq, n) == SubSeq(seq, 1, IF Len(seq) < n THEN Len(seq) ELSE n)

RECURSIVE SanitizeLoop(_, _, _)
\* The loop of _sanitize_products over the remaining products.
SanitizeLoop(products, seen, sanitized) ==
    IF products = <<>> THEN sanitized
    ELSE LET product == Head(products)
             cleaned == clean_product_url(product.url)
         IN  IF cleaned.kind = "raise" THEN SanitizeLoop(Tail(products), seen, sanitized)
             ELSE IF LowerUrl(cleaned.url) \in seen
                  THEN SanitizeLoop(Tail(products), seen, sanitized)
                  ELSE SanitizeLoop(Tail(products), seen \cup {LowerUrl(cleaned.url)},
                                    Append(sanitized, [product EXCEPT !.url = cleaned.url]))

\* agents/emailer.py _sanitize_products
_sanitize_products(products) == Head_(SanitizeLoop(products, {}, <<>>), ProductCap)

\* try: clean_product_url(str(url)) except ValueError: str(url)
SanitizedOrRaw(url) ==
    LET cleaned == clean_product_url(url)
    IN  IF cleaned.kind = "return" THEN cleaned.url ELSE url

\* existing_by_url.get(key): the last item stored under the key.
ExistingByUrl(items, key) ==
    LET at == {i \in 1..Len(items) : items[i].url # None /\ SanitizedOrRaw(items[i].url[1]) = key}
    IN  IF at = {} THEN None ELSE Some(items[CHOOSE i \in at : \A k \in at : k <= i])

\* The ShoppingItem built for products[idx].
ProductEntry(items, products, idx) ==
    LET product == products[idx]
        sanitized_url == SanitizedOrRaw(product.url)
        existing == ExistingByUrl(items, sanitized_url)
    IN  IF existing = None
        THEN [position |-> Some(idx), category |-> "Material", product |-> product.title,
              quantity |-> "1",
              rationale |-> IF product.note # None THEN product.note[1]
                            ELSE "Empfohlenes Bauhaus-Produkt",
              price |-> IF product.price_text # None THEN product.price_text
                        ELSE Some("ca. Preis auf Anfrage"),
              url |-> Some(sanitized_url)]
        ELSE [position |-> IF existing[1].position # None THEN existing[1].position ELSE Some(idx),
              category |-> existing[1].category, product |-> existing[1].product,
              quantity |-> existing[1].quantity, rationale |-> existing[1].rationale,
              price |-> IF product.price_text # None THEN product.price_text
                        ELSE IF existing[1].price # None THEN existing[1].price
                        ELSE Some("ca. Preis auf Anfrage"),
              url |-> Some(sanitized_url)]

\* (item.category or "").strip().lower()
CategoryKey(category) ==
    CASE category = "Material" -> "material"
      [] category = "Werkzeug" -> "werkzeug"
      [] category = "Sicherheit" -> "sicherheit"
      [] OTHER -> category

RECURSIVE DedupeCategories(_, _)
\* The last loop of _merge_product_results: the first item of each category.
DedupeCategories(final_items, seen_categories) ==
    IF final_items = <<>> THEN <<>>
    ELSE LET item == Head(final_items)
         IN  IF CategoryKey(item.category) \in seen_categories
             THEN DedupeCategories(Tail(final_items), seen_categories)
             ELSE <<item>> \o DedupeCategories(Tail(final_items),
                                  seen_categories \cup {CategoryKey(item.category)})

\* agents/writer.py _merge_product_results
_merge_product_results(items, products) ==
    LET fromProducts == [idx \in 1..Len(products) |-> ProductEntry(items, products, idx)]
        used_urls == {SanitizedOrRaw(products[idx].url) : idx \in 1..Len(products)}
        kept == SelectSeq(items, LAMBDA item :
                    item.url = None \/ SanitizedOrRaw(item.url[1]) \notin used_urls)
    IN  DedupeCategories(fromProducts \o kept, {})

\* _sanitize_products is called on a product list.
SanitizeProductsCall ==
    /\ fnPc = "called"
    /\ fnIn[1].fn = "_sanitize_products"
    /\ fnOut' = Some(_sanitize_products(fnIn[1].products))
    /\ fnPc' = "returned"
    /\ UNCHANGED <<fnIn, fnLoc, pipeVars, fanVars, storeVars>>

\* _merge_product_results is called on a shopping list and a product list.
MergeProductResultsCall ==
    /\ fnPc = "called"
    /\ fnIn[1].fn = "_merge_product_results"
    /\ fnOut' = Some(_merge_product_results(fnIn[1].items, fnIn[1].products))
    /\ fnPc' = "returned"
    /\ UNCHANGED <<fnIn, fnLoc, pipeVars, fanVars, storeVars>>

InitRecords ==
    /\ statuses = [j \in JobIds |-> None]
    /\ pc = [j \in JobIds |-> "idle"]
    /\ ctx = [j \in JobIds |-> NoCtx]
    /\ writes = [j \in JobIds |-> <<>>]
    /\ calls = [j \in JobIds |-> <<>>]
    /\ searchImpl = "agents.search"
    /\ FanInitIdle
    /\ StoreInitIdle
    /\ fnPc = "called"
    /\ \E products \in SeqsUpTo(ProductItems, MaxProducts) :
           \/ fnIn = Some([fn |-> "_sanitize_products", products |-> products])
           \/ \E items \in SeqsUpTo(ShoppingItems, MaxItems) :
                  fnIn = Some([fn |-> "_merge_product_results", items |-> items,
                               products |-> products])
    /\ fnLoc = None
    /\ fnOut = None

NextRecords == SanitizeProductsCall \/ MergeProductResultsCall

SpecRecords == InitRecords /\ [][NextRecords]_vars

(***************************************************************************)
(* Properties of the record deduplication (under SpecRecords)              *)
(***************************************************************************)
\* The canonical URLs that two records of the input list share.
SharedCanonicalUrls(products) ==
    {clean_product_url(products[i].url).url :
        i \in {k \in 1..Len(products) :
                  /\ clean_product_url(products[k].url).kind = "return"
                  /\ \E m \in 1..Len(products) :
                         m # k /\ clean_product_url(products[m].url) = clean_product_url(products[k].url)}}

\* The entries of an output list whose URL is the canonical URL u.
EntriesFor(fn, out, u) ==
    {i \in 1..Len(out) :
        IF fn = "_sanitize_products" THEN SanitizedOrRaw(out[i].url) = u
        ELSE out[i].url # None /\ SanitizedOrRaw(out[i].url[1]) = u}

\* C18: when two records of the input list have the same canonical URL, the
\* merged shopping list and the sanitized product list each contain exactly
\* one entry for that URL.
C18_ExactlyOneEntryPerUrl ==
    fnPc = "returned" /\ fnIn[1].fn \in {"_sanitize_products", "_merge_product_results"} =>
        \A u \in SharedCanonicalUrls(fnIn[1].products) :
            Cardinality(EntriesFor(fnIn[1].fn, fnOut[1], u)) = 1

(***************************************************************************)
(* Error handling of the search calls (under SpecRetry and SpecFanout)     *)
(***************************************************************************)
\* The k-th answer to task t is a failure that is neither transient nor one
\* of the shape errors the cascade handles (a rejected tool_choice
\* parameter while it was still sent, a rejected tool type).
NonTransientFailure(t, k) ==
    /\ t.log[k].out \notin {"ok"} \cup TransientKinds
    /\ ~(t.log[k].out = "tool_choice" /\ t.log[k].tool_choice)
    /\ t.log[k].out # "tool_type"

\* C21: a failed request of a search call is followed by a new attempt only
\* when the failure is transient; a non-transient failure that is not a
\* shape error is the last request of the call, which ends at once without
\* a backoff wait.
C21_RetryOnlyTransient ==
    \A i \in 1..Len(task) :
        LET t == task[i]
        IN  \A k \in 1..Len(t.log) :
                /\ NonTransientFailure(t, k) =>
                       /\ k = Len(t.log)
                       /\ t.pc \in {"done", "raised"}
                       /\ t.waits = t.log[k].waits
                /\ (k < Len(t.log) /\ t.log[k + 1].attempt > t.log[k].attempt) =>
                       t.log[k].out \in TransientKinds

\* The k-th answer to product task t rejects the tool type of its request
\* while later candidates are still untried.
CandidateRejected(t, k) ==
    /\ t.log[k].out = "tool_type"
    /\ \E c \in 1..(Len(_collect_tool_types(toolType)) - 1) :
           t.log[k].tool_type = _collect_tool_types(toolType)[c]

\* C22: when the backend rejects the tool type of a product search request
\* as unsupported, the call goes on with the next candidate in the same
\* attempt; it does not end with an empty result while a candidate is
\* still untried.
C22_ProductNextCandidate ==
    \A i \in 1..Len(task) :
        LET t == task[i]
        IN  \A k \in 1..Len(t.log) :
                (t.product /\ CandidateRejected(t, k)) =>
                    /\ k = Len(t.log) =>
                           /\ t.pc = "inflight"
                           /\ t.attempt = t.log[k].attempt
                           /\ ToolTypeOf(t) # t.log[k].tool_type
                    /\ k < Len(t.log) =>
                           /\ t.log[k + 1].attempt = t.log[k].attempt
                           /\ t.log[k + 1].tool_type # t.log[k].tool_type

\* The k-th answer to product task t is a response whose text does not
\* parse into a record list.
Unparseable(t, k) ==
    /\ t.log[k].out = "ok"
    /\ \/ _parse_product_response_raises(t.log[k].text[1])
       \/ _parse_product_response_crashes(t.log[k].text[1])

\* The k-th answer answers the repeat of the request of the (k-1)-th.
IsRepeat(t, k) ==
    /\ k > 1
    /\ Unparseable(t, k - 1)
    /\ t.log[k].attempt = t.log[k - 1].attempt
    /\ t.log[k].tool_type = t.log[k - 1].tool_type
    /\ t.log[k].tool_choice = t.log[k - 1].tool_choice

\* C23: in a product search call an unparseable response is followed by
\* exactly one repeat of the same request; after the second unparseable
\* response the call returns an empty record list and raises nothing.
C23_ParseRetryOnce ==
    \A i \in 1..Len(task) :
        LET t == task[i]
        IN  \A k \in 1..Len(t.log) :
                (t.product /\ Unparseable(t, k)) =>
                    IF IsRepeat(t, k)
                    THEN /\ k = Len(t.log)
                         /\ t.pc = "done"
                         /\ t.exc = None
                         /\ t.result[1].products = <<>>
                    ELSE /\ t.exc = None
                         /\ k = Len(t.log) =>
                                /\ t.pc = "inflight"
                                /\ t.attempt = t.log[k].attempt
                                /\ ToolTypeOf(t) = t.log[k].tool_type
                                /\ t.include_tool_choice = t.log[k].tool_choice
                         /\ k < Len(t.log) => IsRepeat(t, k + 1)

\* C24: whenever a standard search call gives up, because every candidate
\* tool type was rejected or because its last attempt failed, the error it
\* raises names the query of the search item.
C24_GivingUpNamesQuery ==
    \A i \in 1..Len(task) :
        LET t == task[i]
        IN  (~t.product /\ t.pc = "raised") =>
                /\ Len(t.exc[1].msg) = 2
                /\ t.exc[1].msg[2] = t.query

(***************************************************************************)
(* Progress of run_job                                                     *)
(***************************************************************************)
\* The job state machine with the progress its code guarantees against a
\* backend that may never answer.  The event loop runs a created task.  A
\* collaborator call is certain to end only where the code bounds it:
\* perform_searches and the enrichment wrap every request in
\* asyncio.wait_for(..., timeout=DEFAULT_TIMEOUT), and _post_sendgrid opens
\* its client with timeout=30.0.  classify_query_llm, plan_searches,
\* write_report and audit_report_llm await the model call as it is, so
\* their return actions carry no fairness condition.
SpecTimeouts ==
    /\ Init
    /\ [][Next]_vars
    /\ \A j \in JobIds :
        /\ WF_vars(RunJobStart(j))
        /\ WF_vars(SearchReturn(j))
        /\ WF_vars(EnrichReturn(j))
        /\ WF_vars(EmailReturn(j))

RequestsUnderEntry(t) ==
    Cardinality({k \in 1..Len(t.log) : t.log[k].attempt = t.attempt})
        + (IF t.pc = "inflight" THEN 1 ELSE 0)

\* C26: the limiter is entered for exactly one backend request and left
\* right after it, also when the request fails: no task issues a second
\* request of its candidate cascade under the same entry.
C26_OneRequestPerEntry ==
    \A i \in 1..Len(task) :
        /\ task[i].pc \in {"inflight", "sleep", "done", "raised"} =>
               RequestsUnderEntry(task[i]) = 1
        /\ \A k \in 1..(Len(task[i].log) - 1) :
               task[i].log[k + 1].attempt # task[i].log[k].attempt

\* run_job, suspended in `await perform_searches(...)`, receives the
\* exception asyncio.gather propagated: the handler records the error and
\* run_job ends.  The tasks of the fan-out are not touched.
SearchRaises ==
    /\ foPc = "raised"
    /\ pc[FanJob] = "search"
    /\ HandleError(FanJob, foOut[1])
    /\ UNCHANGED <<searchImpl, fanVars, storeVars, fnVars>>

\* A job that has reached `await perform_searches(...)` with a plan of
\* MaxTasks items, the last of them a shopping-list search.
InitGather ==
    /\ statuses = [j \in JobIds |->
                      IF j = FanJob THEN Some(StatusEntry(j, "searching", None, None)) ELSE None]
    /\ pc = [j \in JobIds |-> IF j = FanJob THEN "search" ELSE "idle"]
    /\ ctx = [j \in JobIds |->
                 IF j = FanJob
                 THEN [NoCtx EXCEPT !.guard_result =
                          Some([kind |-> "return", category |-> "KI_CONTROL",
                                reasons |-> <<"Zulaessig">>])]
                 ELSE NoCtx]
    /\ writes = [j \in JobIds |->
                    IF j = FanJob
                    THEN <<StatusEntry(j, "queued", None, None),
                           StatusEntry(j, "planning", None, None),
                           StatusEntry(j, "planning", CategoryDetail("KI_CONTROL"), None),
                           StatusEntry(j, "searching", None, None)>>
                    ELSE <<>>]
    /\ calls = [j \in JobIds |->
                   IF j = FanJob
                   THEN <<Call("classify_query_llm", <<>>, <<>>, None),
                          Call("plan_searches", <<>>, <<>>, None),
                          Call("perform_searches", <<>>, <<>>, None)>>
                   ELSE <<>>]
    /\ searchImpl = "agents.search"
    /\ StoreInitIdle
    /\ FnInitIdle
    /\ foPlan = FanPlan([i \in 1..MaxTasks |->
                             IF i < MaxTasks THEN {"regal"} ELSE {"einkaufsliste", "bauhaus"}])
    /\ foCat = "KI_CONTROL"
    /\ foPc = "called"
    /\ task = <<>>
    /\ level = 0
    /\ maxRate = MaxRate
    /\ toolType = "web_search_preview"
    /\ faults = 1
    /\ foOut = None

NextGather == NextFanout \/ SearchRaises

SpecGather == InitGather /\ [][NextGather]_vars

\* C27: there is no cancellation across the tasks of a fan-out: after one
\* task has failed terminally and perform_searches has raised, also after
\* run_job has recorded the job as error, no other task is cancelled, and
\* every task that waits for an answer or in a backoff can go on.
C27_NoCrossCancellation ==
    foPc = "raised" =>
        \A i \in 1..Len(task) :
            /\ task[i].pc \in {"acquire", "inflight", "sleep", "done", "raised"}
            /\ task[i].pc = "inflight" => ENABLED Respond(i)
            /\ task[i].pc = "sleep" => ENABLED Wake(i)
            /\ (task[i].pc = "acquire" /\ level < maxRate) => ENABLED Acquire(i)

\* After the job was recorded as error, a task of its fan-out received an
\* answer, issued a further request and got that one answered as well.
C27_Witness ==
    /\ Entry(FanJob).phase = "error"
    /\ pc[FanJob] = "finished"
    /\ \E i \in 1..Len(task) :
        /\ task[i].pc = "done"
        /\ \E k \in 1..(Len(task[i].log) - 1) :
            /\ task[i].log[k].job_phase = "error"
            /\ task[i].log[k + 1].out = "ok"

(***************************************************************************)
(* The enrichment call of run_job (under Spec)                             *)
(***************************************************************************)
\* The positions of the calls of fn in the call history of job j.
CallsOf(j, fn) == {k \in 1..Len(calls[j]) : calls[j][k].fn = fn}

\* C28: run_job calls perform_product_enrichment at most once per job, only
\* for category DIY, directly after perform_searches has returned and with
\* exactly the summaries it returned; for every other category there is no
\* enrichment call and the record list passed to write_report and to
\* send_email is empty.
C28_EnrichmentOnlyForDiy ==
    \A j \in JobIds :
        /\ Cardinality(CallsOf(j, "perform_product_enrichment")) <= 1
        /\ \A k \in CallsOf(j, "perform_product_enrichment") :
               /\ Category(ctx[j]) = "DIY"
               /\ k > 1
               /\ calls[j][k - 1].fn = "perform_searches"
               /\ calls[j][k].summaries = ctx[j].summaries
        /\ Category(ctx[j]) # "DIY" =>
               /\ CallsOf(j, "perform_product_enrichment") = {}
               /\ \A k \in CallsOf(j, "write_report") \cup CallsOf(j, "send_email") :
                      calls[j][k].products = <<>>

\* A DIY job whose enrichment was called after the fan-out with its
\* summaries and whose records reached the writer, next to a job of another
\* category that reached email delivery without records.
C28_Witness ==
    \E j, k \in JobIds :
        /\ Category(ctx[j]) = "DIY"
        /\ CallsOf(j, "perform_product_enrichment") # {}
        /\ \E c \in CallsOf(j, "perform_product_enrichment") : calls[j][c].summaries # <<>>
        /\ \E c \in CallsOf(j, "write_report") : calls[j][c].products # <<>>
        /\ Category(ctx[k]) = "KI_CONTROL"
        /\ CallsOf(k, "send_email") # {}
        /\ CallsOf(k, "perform_product_enrichment") = {}

\* The job state machine when every collaborator call eventually returns or
\* raises: the event loop runs a created task, and each awaited call of a
\* job is answered at some time.  Two jobs are still to be started; any
\* further job has already ended as rejected.
InitLive ==
    /\ statuses = [j \in JobIds |->
                      IF j <= 2 THEN None
                      ELSE Some(StatusEntry(j, "rejected", RejectDetail(<<"Finanzen">>), None))]
    /\ pc = [j \in JobIds |-> IF j <= 2 THEN "idle" ELSE "finished"]
    /\ ctx = [j \in JobIds |->
                 IF j <= 2 THEN NoCtx
                 ELSE [NoCtx EXCEPT !.guard_result =
                          Some([kind |-> "return", category |-> "REJECT",
                                reasons |-> <<"Finanzen">>])]]
    /\ writes = [j \in JobIds |->
                    IF j <= 2 THEN <<>>
                    ELSE <<StatusEntry(j, "queued", None, None),
                           StatusEntry(j, "planning", None, None),
                           StatusEntry(j, "rejected", RejectDetail(<<"Finanzen">>), None)>>]
    /\ calls = [j \in JobIds |->
                   IF j <= 2 THEN <<>>
                   ELSE <<Call("classify_query_llm", <<>>, <<>>, None)>>]
    /\ searchImpl \in {"agents.search", "fake"}
    /\ FanInitIdle
    /\ StoreInitIdle
    /\ FnInitIdle

SpecLive ==
    /\ InitLive
    /\ [][Next]_vars
    /\ \A j \in JobIds :
        /\ WF_vars(RunJobStart(j))
        /\ WF_vars(ClassifyReturn(j))
        /\ WF_vars(PlanReturn(j))
        /\ WF_vars(SearchReturn(j))
        /\ WF_vars(EnrichReturn(j))
        /\ WF_vars(WriteReturn(j))
        /\ WF_vars(AuditReturn(j))
        /\ WF_vars(EmailReturn(j))

\* C29: every run_job invocation eventually writes a terminal phase for its
\* job and ends, provided each collaborator call eventually returns or
\* raises; no job stays in queued, planning, searching, writing or email.
C29_RunJobTerminates ==
    \A j \in JobIds :
        (pc[j] = "created") ~> (pc[j] = "finished" /\ Entry(j).phase \in TerminalPhases)

\* One job has ended as done and another one as error, each with its
\* terminal phase as the last write.
C29_Witness ==
    \E j, k \in JobIds :
        /\ pc[j] = "finished" /\ Entry(j).phase = "done"
        /\ writes[j][Len(writes[j])].phase = "done"
        /\ pc[k] = "finished" /\ Entry(k).phase = "error"
        /\ writes[k][Len(writes[k])].phase = "error"

(***************************************************************************)
(* Jobs and a status poller (api/main.py get_job_status) side by side      *)
(***************************************************************************)
\* The thread that serves GET /status/{job_id}.
Poller == 1

\* run_job and start_research reach the store through set_status, which
\* waits for _LOCK: their steps are taken while no poller holds it.  The
\* poller calls get_status for any job id, known to the store or not.
NextFrame ==
    \/ lock = None /\ Next
    \/ \E j \in JobIds : GetStatusCall(Poller, j)
    \/ LockAcquire(Poller)
    \/ StoreRead(Poller)
    \/ LockRelease(Poller)

\* Jobs 1 and 2 have not been started; any further job has already ended
\* as rejected.  The poller is idle.
InitFrame ==
    /\ statuses = [j \in JobIds |->
                      IF j <= 2 THEN None
                      ELSE Some(StatusEntry(j, "rejected", RejectDetail(<<"Finanzen">>), None))]
    /\ pc = [j \in JobIds |-> IF j <= 2 THEN "idle" ELSE "finished"]
    /\ ctx = [j \in JobIds |->
                 IF j <= 2 THEN NoCtx
                 ELSE [NoCtx EXCEPT !.guard_result =
                          Some([kind |-> "return", category |-> "REJECT",
                                reasons |-> <<"Finanzen">>])]]
    /\ writes = [j \in JobIds |->
                    IF j <= 2 THEN <<>>
                    ELSE <<StatusEntry(j, "queued", None, None),
                           StatusEntry(j, "planning", None, None),
                           StatusEntry(j, "rejected", RejectDetail(<<"Finanzen">>), None)>>]
    /\ calls = [j \in JobIds |->
                   IF j <= 2 THEN <<>>
                   ELSE <<Call("classify_query_llm", <<>>, <<>>, None)>>]
    /\ searchImpl \in {"agents.search", "fake"}
    /\ FanInitIdle
    /\ FnInitIdle
    /\ lock = None
    /\ thr = [t \in {Poller} |-> IdleThread]

SpecFrame == InitFrame /\ [][NextFrame]_vars

\* C30: a step of run_job(j) or of set_status(j, ...) changes no store
\* entry but that of j, whatever the other jobs are doing, and a step of
\* get_status changes no entry at all: an id the store does not know is
\* still unknown after it was polled.
C30_OnlyOwnEntryChanges ==
    [][/\ \A j \in JobIds :
              pc'[j] # pc[j] =>
                  \A k \in JobIds \ {j} : statuses'[k] = statuses[k] /\ writes'[k] = writes[k]
       /\ \A k \in JobIds :
              statuses'[k] # statuses[k] => pc'[k] # pc[k] /\ thr' = thr
       /\ thr' # thr => statuses' = statuses /\ writes' = writes]_vars

\* Two jobs are under way in different phases, and the poller has returned
\* the placeholder for an id that no set_status had been called for.
C30_Witness ==
    /\ thr[Poller].pc = "returned"
    /\ thr[Poller].seen = 0
    /\ thr[Poller].result = Some(Placeholder(thr[Poller].job_id))
    /\ \A j \in {1, 2} : pc[j] \notin {"idle", "created", "finished"}
    /\ Entry(1).phase # Entry(2).phase

====
